---- MODULE Spec2Model ----
(***************************************************************************)
(* Graphene-HA: the Rust runtime probes (analyzers/rust and                *)
(* analyzers/rust-bridge), the orchestrator's bridge client                *)
(* (src/analyzer.rs) and the mode composition of analyze_target            *)
(* (src/orchestrator.rs), as a state machine.                              *)
(*                                                                         *)
(* Text is modelled at the granularity the code inspects it: a JSON        *)
(* document is a sequence of tokens (open brace, one token per field,      *)
(* close brace), an error string is a sequence of words.                   *)
(***************************************************************************)
EXTENDS Integers, Sequences, FiniteSets, TLC

\* ------------------------------------------------------------------ bounds
MaxInputs == 2
MaxRepeat == 2
MaxTests == 4
MaxFairTests == 2
MaxBridgeTests == 2
MaxSpawned == 1

\* The inputs of a request are the first n strings of this pool.
InputPool == <<"a", "b", "c", "d">>

\* Messages a panicking target may carry in its payload.
PanicMessages == {"boom", "Timeout"}

\* ------------------------------------------------------------ JSON as tokens
OpenTok == [t |-> "{"]
CloseTok == [t |-> "}"]
FieldTok(k, v) == [t |-> "field", k |-> k, v |-> v]
TextTok(s) == [t |-> "text", s |-> s]

\* serde_json::to_string of a struct: its serialized fields between braces.
ToJson(fields) ==
    <<OpenTok>> \o [x \in DOMAIN fields |-> FieldTok(fields[x][1], fields[x][2])] \o <<CloseTok>>

\* The text is one complete JSON object.
IsJsonObject(text) ==
    /\ Len(text) >= 2
    /\ text[1].t = "{"
    /\ text[Len(text)].t = "}"
    /\ \A x \in 2..(Len(text) - 1) : text[x].t = "field"

JsonKeys(text) == {text[x].k : x \in 2..(Len(text) - 1)}

JsonGet(text, key) == text[CHOOSE x \in 2..(Len(text) - 1) : text[x].k = key].v

\* serde_json::from_str / from_slice into a struct whose fields without a
\* default are `required`: unknown fields are ignored, a missing required
\* field is an error.
FromJsonOk(text, required) == IsJsonObject(text) /\ required \subseteq JsonKeys(text)

\* ------------------------------------------------------------------ strings
\* str::contains(word) on a string held as a sequence of words.
Contains(s, word) == \E k \in DOMAIN s : s[k] = word

\* All orders in which the elements of a set can be iterated.
Perms(S) == {p \in [1..Cardinality(S) -> S] : \A a, b \in DOMAIN p : p[a] = p[b] => a = b}

\* ----------------------------------------------------------- protocol types
\* analyzers/rust/src/main.rs AnalyzeRequest: the fields without a default.
ProbeRequestRequired == {"session_id", "target", "inputs", "repeat", "timeout_seconds"}

\* src/protocol.rs AnalyzeRequest as serialized by the orchestrator.
RequestFields(r) ==
    << <<"session_id", r.session_id>>, <<"target", r.target>>, <<"inputs", r.inputs>>,
       <<"repeat", r.repeat>>, <<"timeout_seconds", r.timeout_seconds>>,
       <<"options", r.options>>, <<"analysis_mode", r.analysis_mode>> >>

\* Requests with a positive timeout (the data model's domain) that ask for at
\* most maxTests invocations.
Requests(maxTests) ==
    {[session_id |-> "s1", target |-> "t.rs:f", inputs |-> SubSeq(InputPool, 1, n),
      repeat |-> rep, timeout_seconds |-> "positive", options |-> <<>>,
      analysis_mode |-> "Dynamic"] :
        <<n, rep>> \in {q \in (0..MaxInputs) \X (0..MaxRepeat) : q[1] * q[2] <= maxTests}}

NoRequest == [session_id |-> "none"]

EmptyDetails ==
    [threads |-> <<>>, processes |-> <<>>, async_tasks |-> <<>>, goroutines |-> <<>>, other |-> <<>>]

\* ExecutionResult as execute_test initialises it.
NewResult(input) ==
    [input_data |-> input, success |-> FALSE, crashed |-> FALSE, output |-> <<>>,
     error |-> <<>>, execution_time_ms |-> 0, escape_detected |-> FALSE,
     escape_details |-> EmptyDetails]

DefaultSummary ==
    [total_tests |-> 0, successes |-> 0, crashes |-> 0, timeouts |-> 0, escapes |-> 0,
     genuine_escapes |-> 0, crash_rate |-> <<0, 1>>]

ZeroCounters == [successes |-> 0, crashes |-> 0, timeouts |-> 0, escapes |-> 0, genuine_escapes |-> 0]

\* Clock ticks the 100 ms sleep of execute_test takes; an enumeration of the
\* threads and a wait in recv_timeout take one tick each.
GraceTicks == 2

\* Nothing captured yet by execute_test.
NoCapture == [baseline |-> 0, delta |-> 0, threads |-> {}]

NoResponse == [session_id |-> "none"]

EmptyChan == [kind |-> "empty"]

\* Exit statuses of the probe process: std::process::ExitCode SUCCESS and
\* FAILURE as main's Ok and Err return them.
ExitSuccess == "exit 0"
ExitFailure == "exit 1"
\* The status of a process whose main thread panicked.
ExitPanic == "exit 101"

NoResult == [kind |-> "none"]

\* The probes whose source is analyzers/rust and analyzers/rust-bridge, and a
\* probe of another language that answers with every field of the protocol.
RustProbes == {"rust", "rust-bridge"}
ProbeKinds == RustProbes \cup {"conforming"}

\* The probe enumerates thread ids (the others compare a count).
EnumeratesThreads(kind) == kind # "rust-bridge"

VARIABLES
    probeKind,        \* which probe binary runs: "rust" or "rust-bridge"
    stdin,            \* tokens written to the probe's standard input
    stdinClosed,      \* the write end of the probe's standard input is closed
    stdout,           \* tokens the probe printed
    stderr,           \* words the probe process wrote to standard error
    exitStatus,       \* "running" or the probe's exit status
    ppc,              \* position of the probe's main thread
    request,          \* the parsed AnalyzeRequest
    response,         \* analyze's response under construction
    counters,         \* analyze's successes/crashes/timeouts/escapes/genuine_escapes
    i, j,             \* analyze's loop position: input index, repeat index (1-based)
    result,           \* execute_test's result under construction
    baseline_threads, \* execute_test's baseline set of thread ids (analyzers/rust)
    current_threads,  \* execute_test's post-grace set of thread ids (analyzers/rust)
    baseline_thread_count, \* execute_test's baseline count (analyzers/rust-bridge)
    current_thread_count,  \* execute_test's post-grace count (analyzers/rust-bridge)
    chan,             \* the mpsc channel of the current invocation
    live,             \* ids of the OS threads of the probe process
    nextTid,          \* next thread id the OS hands out
    running,          \* worker thread id -> invocation whose target it still executes
    spawned,          \* number of threads targets have started
    parallelism,      \* what thread::available_parallelism() reports
    outcome,          \* outcome of the current invocation
    outcomes,         \* outcome of every finished invocation, in order
    stdoutOpen,       \* the read end of the probe's standard output is open
    mode,             \* analyze_target's analysis_mode
    opc,              \* position of analyze_target
    orchResponse,     \* analyze_target's `response`
    cpc,              \* position of the bridge client's execute_bridge
    bridgeRequest,    \* the AnalyzeRequest run_dynamic_analysis built
    bridgeResult,     \* what execute_bridge returned
    health,           \* outcome of the selected handle's health_check in this session
    target,           \* the target find_analyzer is asked about
    language,         \* the --language option, "None" when absent
    selected,         \* the language of the handle find_analyzer returned
    rpc,              \* position of run_all_tests
    language_filter,  \* run_all_tests' --language option, "None" when absent
    discovery,        \* language -> what discovery under test_dir yields: a count or "Err"
    unhealthy,        \* languages whose handle's health_check fails
    ra,               \* index in the registry of run_all_tests' current analyzer
    ti,               \* index of the current target among the discovered ones
    sent,             \* <<language, target>> of every request run_all_tests sent, in order
    analysisLog,      \* the outcome of each of those requests
    runError,         \* why run_all_tests returned: "None", "discovery" or "report"
    escapes,          \* the StaticEscape list a static analysis holds
    summary,          \* the StaticEscapeSummary built from it
    program,          \* the Rust source under analysis: signature layout and body statements
    source,           \* its text: the lines of the source file
    warnings,         \* the warnings of the static analysis
    spc,              \* position of RustStaticAnalyzer::analyze
    count,            \* the `generate` count of the latest generate_inputs call
    inputs,           \* what that call returned, <<>> before any call
    prior_count,      \* the count of the call before it
    prior_inputs,     \* what the call before it returned
    now,              \* wall clock, in ticks of 1/TicksPerSecond second
    files,            \* session timestamp -> the files of that session directory
    generated,        \* the latest ReportGenerator::generate call: result, directory, response
    clock,            \* the monotonic clock the probe reads, in ticks
    start,            \* execute_test: the Instant taken by `let start = Instant::now()`
    captured,         \* when the baseline and the delta were captured, and the threads alive at the delta
    creator,          \* thread id -> the invocation whose target started the thread
    scope,            \* what a static scanner made of its target: pending, a function name, the whole file or an error
    paths,            \* the files that exist under the working directory
    source_file       \* what resolve_source_file returned, <<>> before the call

probeVars ==
    <<probeKind, stdin, stdinClosed, stdout, stderr, exitStatus, ppc, request, response,
      counters, i, j, result, baseline_threads, current_threads, baseline_thread_count,
      current_thread_count, chan, live, nextTid, running, spawned, parallelism, outcome,
      outcomes>>

orchVars == <<stdoutOpen, mode, opc, orchResponse, cpc, bridgeRequest, bridgeResult, health>>

findVars == <<target, language, selected>>

runAllVars ==
    <<rpc, language_filter, discovery, unhealthy, ra, ti, sent, analysisLog, runError>>

staticVars == <<escapes, summary, program, source, warnings, spc>>

generateVars == <<count, inputs, prior_count, prior_inputs>>

reportVars == <<now, files, generated>>

superviseVars == <<clock, start, captured, creator>>

scopeVars == <<scope>>

resolveVars == <<paths, source_file>>

vars ==
    <<probeVars, orchVars, findVars, runAllVars, staticVars, generateVars, reportVars, superviseVars, scopeVars,
      resolveVars>>

\* ------------------------------------------------------------ probe process
\* Number of the invocation the main thread is in (1-based).
Invocation == Len(response.results) + 1

\* get_thread_ids on Linux: the ids under /proc/self/task.
get_thread_ids == live

\* thread::available_parallelism().map(|n| n.get()).unwrap_or(1)
available_parallelism == parallelism

\* Mutant: the panic text shows the payload's message.
PanicTextShowsPayload(payload) == <<"Panic:", payload>>

\* format!("Panic: {:?}", e) for e: Box<dyn Any + Send>: the Debug form of a
\* boxed Any does not show the payload.
PanicText(payload) == <<"Panic:", "Any { .. }">>

\* The mock target's return value: format!("Mock result for: {}", input).
TargetOutput(input) == <<"Mock result for:", input>>

\* ThreadEscape for one escaped thread id.
ThreadEscape(tid) ==
    [thread_id |-> ToString(tid), name |-> <<"thread_", ToString(tid)>>,
     is_daemon |-> FALSE, state |-> "unknown"]

\* Mutant: the baseline is not subtracted.
EscapedThreadsUnfiltered(current, baseline) == current

\* escaped_threads: the ids of current that the baseline does not contain.
EscapedThreads(current, baseline) == {tid \in current : tid \notin baseline}

\* The part of AnalyzeResponse the probe serializes: `error` is skipped when None.
ProbeResponseFields(r) ==
    << <<"session_id", r.session_id>>, <<"language", r.language>>,
       <<"analyzer_version", r.analyzer_version>>, <<"results", r.results>>,
       <<"vulnerabilities", r.vulnerabilities>>, <<"summary", r.summary>> >>
    \o (IF r.error = "None" THEN <<>> ELSE << <<"error", r.error>> >>)

\* What a probe of another language serializes: the protocol's AnalyzeResponse,
\* analysis_mode included.
ConformingResponseFields(r, analysis_mode) ==
    ProbeResponseFields(r) \o << <<"analysis_mode", analysis_mode>> >>

\* The response text a probe of the given kind prints.
ResponseText(kind, r, text) ==
    IF kind \in RustProbes
    THEN ToJson(ProbeResponseFields(r))
    ELSE ToJson(ConformingResponseFields(r, JsonGet(text, "analysis_mode")))

\* main: read_to_string until end of stream, from_str succeeds, analyze starts.
MainParsed ==
    /\ ppc = "read_stdin"
    /\ stdinClosed
    /\ FromJsonOk(stdin, ProbeRequestRequired)
    /\ request' = [k \in ProbeRequestRequired |-> JsonGet(stdin, k)]
    /\ response' = [session_id |-> JsonGet(stdin, "session_id"), language |-> "rust",
                    analyzer_version |-> "1.0.0", results |-> <<>>, vulnerabilities |-> <<>>,
                    summary |-> DefaultSummary, error |-> "dylib loading required"]
    /\ counters' = ZeroCounters
    /\ i' = 1
    /\ j' = 1
    /\ ppc' = "loop"
    /\ UNCHANGED <<probeKind, stdin, stdinClosed, stdout, stderr, exitStatus, result,
                   baseline_threads, current_threads, baseline_thread_count,
                   current_thread_count, chan, live, nextTid, running, spawned, parallelism,
                   outcome, outcomes, stdoutOpen, mode, opc, orchResponse, cpc,
                   bridgeRequest, bridgeResult, health, target, language, selected, rpc,
                   language_filter, discovery, unhealthy, ra, ti, sent, analysisLog,
                   runError, escapes, summary, program, source, warnings, spc, count, inputs,
                   prior_count, prior_inputs, now, files, generated, clock, start, captured,
                   creator, scope, paths, source_file>>

\* main: from_str fails and `?` returns the error: nothing is printed, the
\* runtime reports the error on stderr and the process exits with status 1.
MainParseFailed ==
    /\ ppc = "read_stdin"
    /\ stdinClosed
    /\ ~FromJsonOk(stdin, ProbeRequestRequired)
    /\ stderr' = <<"Error:", "invalid request">>
    /\ exitStatus' = ExitFailure
    /\ ppc' = "exited"
    /\ live' = {}
    /\ UNCHANGED <<probeKind, stdin, stdinClosed, stdout, request, response, counters, i, j,
                   result, baseline_threads, current_threads, baseline_thread_count,
                   current_thread_count, chan, nextTid, running, spawned, parallelism,
                   outcome, outcomes, stdoutOpen, mode, opc, orchResponse, cpc,
                   bridgeRequest, bridgeResult, health, target, language, selected, rpc,
                   language_filter, discovery, unhealthy, ra, ti, sent, analysisLog,
                   runError, escapes, summary, program, source, warnings, spc, count, inputs,
                   prior_count, prior_inputs, now, files, generated, clock, start, captured,
                   creator, scope, paths, source_file>>

\* The nested for loops of analyze have another (input, repeat) pair to run.
HasNext == request.repeat > 0 /\ i <= Len(request.inputs)

\* execute_test, first part: the result is initialised and the baseline captured.
Baseline ==
    /\ ppc = "loop"
    /\ HasNext
    /\ result' = NewResult(request.inputs[i])
    /\ baseline_threads' = IF EnumeratesThreads(probeKind) THEN get_thread_ids ELSE {}
    /\ baseline_thread_count' = IF EnumeratesThreads(probeKind) THEN 0 ELSE available_parallelism
    /\ captured' = [NoCapture EXCEPT !.baseline = clock]
    /\ clock' = clock + 1
    /\ start' = clock'
    /\ ppc' = "spawn"
    /\ UNCHANGED <<probeKind, stdin, stdinClosed, stdout, stderr, exitStatus, request,
                   response, counters, i, j, current_threads, current_thread_count, chan,
                   live, nextTid, running, spawned, parallelism, outcome, outcomes,
                   stdoutOpen, mode, opc, orchResponse, cpc, bridgeRequest, bridgeResult,
                   health, target, language, selected, rpc, language_filter, discovery,
                   unhealthy, ra, ti, sent, analysisLog, runError, escapes, summary, program,
                   source, warnings, spc, count, inputs, prior_count, prior_inputs, now,
                   files, generated, creator, scope, paths, source_file>>

\* execute_test: a fresh channel is created and the worker thread started.
SpawnWorker ==
    /\ ppc = "spawn"
    /\ live' = live \cup {nextTid}
    /\ running' = [t \in DOMAIN running \cup {nextTid} |->
                      IF t = nextTid THEN Invocation ELSE running[t]]
    /\ nextTid' = nextTid + 1
    /\ outcome' = "pending"
    /\ ppc' = "recv"
    /\ UNCHANGED <<probeKind, stdin, stdinClosed, stdout, stderr, exitStatus, request,
                   response, counters, i, j, result, baseline_threads, current_threads,
                   baseline_thread_count, current_thread_count, chan, spawned, parallelism,
                   outcomes, stdoutOpen, mode, opc, orchResponse, cpc, bridgeRequest,
                   bridgeResult, health, target, language, selected, rpc, language_filter,
                   discovery, unhealthy, ra, ti, sent, analysisLog, runError, escapes,
                   summary, program, source, warnings, spc, count, inputs, prior_count,
                   prior_inputs, now, files, generated, clock, start, captured, creator,
                   scope, paths, source_file>>

\* What recv_timeout's match arms do to the result for a received message.
Received(res, msg) ==
    IF msg.kind = "Ok"
    THEN [res EXCEPT !.success = TRUE, !.output = msg.value]
    ELSE [res EXCEPT !.crashed = TRUE, !.error = PanicText(msg.payload)]

\* Mutant: the timeout arm records the error text but not the crash.
TimedOutNotCrashed(res) == [res EXCEPT !.error = <<"Timeout", "exceeded">>]

\* What the Err(_) arm of recv_timeout does to the result.
TimedOut(res) == [res EXCEPT !.crashed = TRUE, !.error = <<"Timeout", "exceeded">>]

\* result.execution_time_ms = start.elapsed().as_millis()
Elapsed(res, started, t) == [res EXCEPT !.execution_time_ms = t - started]

\* execute_test: recv_timeout returns the worker's message.
RecvOutcome ==
    /\ ppc = "recv"
    /\ chan # EmptyChan
    /\ clock' = clock + 1
    /\ result' = Elapsed(Received(result, chan), start, clock')
    /\ outcome' = IF chan.kind = "Ok" THEN "Completed" ELSE "Faulted"
    /\ chan' = EmptyChan
    /\ ppc' = "grace"
    /\ UNCHANGED <<probeKind, stdin, stdinClosed, stdout, stderr, exitStatus, request,
                   response, counters, i, j, baseline_threads, current_threads,
                   baseline_thread_count, current_thread_count, live, nextTid, running,
                   spawned, parallelism, outcomes, stdoutOpen, mode, opc, orchResponse, cpc,
                   bridgeRequest, bridgeResult, health, target, language, selected, rpc,
                   language_filter, discovery, unhealthy, ra, ti, sent, analysisLog,
                   runError, escapes, summary, program, source, warnings, spc, count, inputs,
                   prior_count, prior_inputs, now, files, generated, start, captured,
                   creator, scope, paths, source_file>>

\* Mutant: recv() in place of recv_timeout(): no timeout ever fires.
RecvWithoutTimeout == FALSE /\ UNCHANGED vars

\* Mutant: on a timeout the delta is captured at once, without the grace.
RecvTimeoutSkipsGrace ==
    /\ ppc = "recv"
    /\ chan = EmptyChan
    /\ clock' = clock + 1
    /\ result' = Elapsed(TimedOut(result), start, clock')
    /\ outcome' = "TimedOut"
    /\ ppc' = "delta"
    /\ UNCHANGED <<probeKind, stdin, stdinClosed, stdout, stderr, exitStatus, request,
                   response, counters, i, j, baseline_threads, current_threads,
                   baseline_thread_count, current_thread_count, chan, live, nextTid, running,
                   spawned, parallelism, outcomes, stdoutOpen, mode, opc, orchResponse, cpc,
                   bridgeRequest, bridgeResult, health, target, language, selected, rpc,
                   language_filter, discovery, unhealthy, ra, ti, sent, analysisLog,
                   runError, escapes, summary, program, source, warnings, spc, count, inputs,
                   prior_count, prior_inputs, now, files, generated, start, captured,
                   creator, scope, paths, source_file>>

\* execute_test: timeout_seconds pass with nothing delivered.
RecvTimeout ==
    /\ ppc = "recv"
    /\ chan = EmptyChan
    /\ clock' = clock + 1
    /\ result' = Elapsed(TimedOut(result), start, clock')
    /\ outcome' = "TimedOut"
    /\ ppc' = "grace"
    /\ UNCHANGED <<probeKind, stdin, stdinClosed, stdout, stderr, exitStatus, request,
                   response, counters, i, j, baseline_threads, current_threads,
                   baseline_thread_count, current_thread_count, chan, live, nextTid, running,
                   spawned, parallelism, outcomes, stdoutOpen, mode, opc, orchResponse, cpc,
                   bridgeRequest, bridgeResult, health, target, language, selected, rpc,
                   language_filter, discovery, unhealthy, ra, ti, sent, analysisLog,
                   runError, escapes, summary, program, source, warnings, spc, count, inputs,
                   prior_count, prior_inputs, now, files, generated, start, captured,
                   creator, scope, paths, source_file>>

\* execute_test: the 100 ms sleep ends.
Grace ==
    /\ ppc = "grace"
    /\ clock' = clock + GraceTicks
    /\ ppc' = "delta"
    /\ UNCHANGED <<probeKind, stdin, stdinClosed, stdout, stderr, exitStatus, request,
                   response, counters, i, j, result, baseline_threads, current_threads,
                   baseline_thread_count, current_thread_count, chan, live, nextTid, running,
                   spawned, parallelism, outcome, outcomes, stdoutOpen, mode, opc,
                   orchResponse, cpc, bridgeRequest, bridgeResult, health, target, language,
                   selected, rpc, language_filter, discovery, unhealthy, ra, ti, sent,
                   analysisLog, runError, escapes, summary, program, source, warnings, spc,
                   count, inputs, prior_count, prior_inputs, now, files, generated, start,
                   captured, creator, scope, paths, source_file>>

\* Mutant: the escapes are listed but the flag is set only for two or more.
WithThreadEscapesFlagLate(res, order) ==
    IF order = <<>>
    THEN res
    ELSE [res EXCEPT !.escape_detected = Len(order) > 1,
                     !.escape_details.threads = [k \in DOMAIN order |-> [thread_id |-> ToString(order[k])]]]

\* execute_test of analyzers/rust: every escaped id becomes a ThreadEscape, in
\* the iteration order `order` of the escaped_threads hash set.
WithThreadEscapes(res, order) ==
    IF order = <<>>
    THEN res
    ELSE [res EXCEPT !.escape_detected = TRUE,
                     !.escape_details.threads = [k \in DOMAIN order |-> ThreadEscape(order[k])]]

\* execute_test of analyzers/rust-bridge: a larger available_parallelism than
\* at the baseline is reported in `other`.
WithCountEscape(res, baseline_count, current_count) ==
    IF current_count > baseline_count
    THEN [res EXCEPT !.escape_detected = TRUE,
                     !.escape_details.other =
                         << <<"Thread count increased:", baseline_count, current_count>> >>]
    ELSE res

\* analyze: the five counters after one result.
Tally(c, res) ==
    [successes |-> c.successes + (IF res.success THEN 1 ELSE 0),
     crashes |-> c.crashes + (IF res.crashed THEN 1 ELSE 0),
     timeouts |-> c.timeouts + (IF Contains(res.error, "Timeout") THEN 1 ELSE 0),
     escapes |-> c.escapes + (IF res.escape_detected THEN 1 ELSE 0),
     genuine_escapes |-> c.genuine_escapes +
         (IF res.escape_detected /\ ~Contains(res.error, "Timeout") THEN 1 ELSE 0)]

\* analyze: the Vulnerability built for an escaping result.
Vulnerability(input, res) ==
    [input |-> input, vulnerability_type |-> "concurrent_escape", severity |-> "high",
     description |-> "Rust concurrency escape detected", escape_details |-> res.escape_details]

\* analyze: the vulnerabilities after one result.
PushVulnerability(vulns, input, res) ==
    IF res.escape_detected THEN Append(vulns, Vulnerability(input, res)) ELSE vulns

\* Mutant: a crashed invocation's result is not kept.
PushResultUnlessCrashed(results, res) == IF res.crashed THEN results ELSE Append(results, res)

\* analyze: the results after one result.
PushResult(results, res) == Append(results, res)

\* The loop position after one invocation: the repeat index varies fastest.
NextI == IF j < request.repeat THEN i ELSE i + 1
NextJ == IF j < request.repeat THEN j + 1 ELSE 1

\* execute_test, last part: the threads are enumerated again and the escapes
\* recorded in the result, which is returned to analyze.
Delta ==
    /\ ppc = "delta"
    /\ current_threads' = IF EnumeratesThreads(probeKind) THEN get_thread_ids ELSE {}
    /\ current_thread_count' = IF EnumeratesThreads(probeKind) THEN 0 ELSE available_parallelism
    /\ clock' = clock + 1
    /\ captured' = [captured EXCEPT !.delta = clock', !.threads = live]
    /\ \E order \in (IF EnumeratesThreads(probeKind)
                      THEN Perms(EscapedThreads(current_threads', baseline_threads))
                      ELSE {<<>>}) :
         result' = IF EnumeratesThreads(probeKind)
                   THEN WithThreadEscapes(result, order)
                   ELSE WithCountEscape(result, baseline_thread_count, current_thread_count')
    /\ ppc' = "tally"
    /\ UNCHANGED <<probeKind, stdin, stdinClosed, stdout, stderr, exitStatus, request,
                   response, counters, i, j, baseline_threads, baseline_thread_count, chan,
                   live, nextTid, running, spawned, parallelism, outcome, outcomes,
                   stdoutOpen, mode, opc, orchResponse, cpc, bridgeRequest, bridgeResult,
                   health, target, language, selected, rpc, language_filter, discovery,
                   unhealthy, ra, ti, sent, analysisLog, runError, escapes, summary, program,
                   source, warnings, spc, count, inputs, prior_count, prior_inputs, now,
                   files, generated, start, creator, scope, paths, source_file>>

\* The rest of analyze's loop body: the result is tallied and pushed, and the
\* loop moves on; execute_test's locals are gone.
TallyAndPush ==
    /\ ppc = "tally"
    /\ counters' = Tally(counters, result)
    /\ response' = [response EXCEPT
                        !.results = PushResult(@, result),
                        !.vulnerabilities = PushVulnerability(@, request.inputs[i], result)]
    /\ outcomes' = Append(outcomes, outcome)
    /\ i' = NextI
    /\ j' = NextJ
    /\ result' = NewResult("")
    /\ baseline_threads' = {}
    /\ current_threads' = {}
    /\ baseline_thread_count' = 0
    /\ current_thread_count' = 0
    /\ chan' = EmptyChan
    /\ start' = 0
    /\ captured' = NoCapture
    /\ outcome' = "pending"
    /\ ppc' = "loop"
    /\ UNCHANGED <<probeKind, stdin, stdinClosed, stdout, stderr, exitStatus, request, live,
                   nextTid, running, spawned, parallelism, stdoutOpen, mode, opc,
                   orchResponse, cpc, bridgeRequest, bridgeResult, health, target, language,
                   selected, rpc, language_filter, discovery, unhealthy, ra, ti, sent,
                   analysisLog, runError, escapes, summary, program, source, warnings, spc,
                   count, inputs, prior_count, prior_inputs, now, files, generated, clock,
                   creator, scope, paths, source_file>>

\* analyze: the summary computed once the loops are over.
Summary(resp, c) ==
    [total_tests |-> Len(resp.results), successes |-> c.successes, crashes |-> c.crashes,
     timeouts |-> c.timeouts, escapes |-> c.escapes, genuine_escapes |-> c.genuine_escapes,
     crash_rate |-> IF Len(resp.results) > 0 THEN <<c.crashes, Len(resp.results)>> ELSE <<0, 1>>]

\* analyze returns; main prints the response and the process exits with 0.
Finish ==
    /\ ppc = "loop"
    /\ ~HasNext
    /\ stdoutOpen
    /\ response' = [response EXCEPT !.summary = Summary(response, counters)]
    /\ stdout' = ResponseText(probeKind, response', stdin)
    /\ exitStatus' = ExitSuccess
    /\ ppc' = "exited"
    /\ live' = {}
    /\ running' = <<>>
    /\ UNCHANGED <<probeKind, stdin, stdinClosed, stderr, request, counters, i, j, result,
                   baseline_threads, current_threads, baseline_thread_count,
                   current_thread_count, chan, nextTid, spawned, parallelism, outcome,
                   outcomes, stdoutOpen, mode, opc, orchResponse, cpc, bridgeRequest,
                   bridgeResult, health, target, language, selected, rpc, language_filter,
                   discovery, unhealthy, ra, ti, sent, analysisLog, runError, escapes,
                   summary, program, source, warnings, spc, count, inputs, prior_count,
                   prior_inputs, now, files, generated, clock, start, captured, creator,
                   scope, paths, source_file>>

\* analyze returns, but nobody holds the read end of standard output any
\* more: println! panics and the process exits with the panic status.
FinishBrokenPipe ==
    /\ ppc = "loop"
    /\ ~HasNext
    /\ ~stdoutOpen
    /\ response' = [response EXCEPT !.summary = Summary(response, counters)]
    /\ stderr' = <<"failed printing to stdout">>
    /\ exitStatus' = ExitPanic
    /\ ppc' = "exited"
    /\ live' = {}
    /\ running' = <<>>
    /\ UNCHANGED <<probeKind, stdin, stdinClosed, stdout, request, counters, i, j, result,
                   baseline_threads, current_threads, baseline_thread_count,
                   current_thread_count, chan, nextTid, spawned, parallelism, outcome,
                   outcomes, stdoutOpen, mode, opc, orchResponse, cpc, bridgeRequest,
                   bridgeResult, health, target, language, selected, rpc, language_filter,
                   discovery, unhealthy, ra, ti, sent, analysisLog, runError, escapes,
                   summary, program, source, warnings, spc, count, inputs, prior_count,
                   prior_inputs, now, files, generated, clock, start, captured, creator,
                   scope, paths, source_file>>

\* ------------------------------------------------- worker threads and target
\* Mutant: one channel shared by all invocations: whatever a worker sends is
\* what the next recv_timeout finds.
SendOnSharedChannel(ch, w, msg) == msg

\* tx.send(exec_result) by worker w: the message goes to the channel of the
\* invocation that started w. It is delivered if that invocation is still in
\* recv_timeout; otherwise it stays in a channel nobody reads again.
Send(ch, w, msg) == IF running[w] = Invocation /\ ppc = "recv" THEN msg ELSE ch

\* The target run by worker w starts a thread of its own.
TargetSpawn(w) ==
    /\ exitStatus = "running"
    /\ w \in DOMAIN running
    /\ spawned < MaxSpawned
    /\ live' = live \cup {nextTid}
    /\ creator' = [t \in DOMAIN creator \cup {nextTid} |->
                      IF t = nextTid THEN running[w] ELSE creator[t]]
    /\ nextTid' = nextTid + 1
    /\ spawned' = spawned + 1
    /\ UNCHANGED <<probeKind, stdin, stdinClosed, stdout, stderr, exitStatus, ppc, request,
                   response, counters, i, j, result, baseline_threads, current_threads,
                   baseline_thread_count, current_thread_count, chan, running, parallelism,
                   outcome, outcomes, stdoutOpen, mode, opc, orchResponse, cpc,
                   bridgeRequest, bridgeResult, health, target, language, selected, rpc,
                   language_filter, discovery, unhealthy, ra, ti, sent, analysisLog,
                   runError, escapes, summary, program, source, warnings, spc, count, inputs,
                   prior_count, prior_inputs, now, files, generated, clock, start, captured,
                   scope, paths, source_file>>

\* The target run by worker w returns; the worker sends Ok(output). The send
\* is the last statement of the worker's closure: the thread is gone from the
\* task list well within the 100 ms grace, so its end is taken with the send.
TargetReturn(w) ==
    /\ exitStatus = "running"
    /\ w \in DOMAIN running
    /\ chan' = Send(chan, w, [kind |-> "Ok",
                               value |-> TargetOutput(request.inputs[
                                   ((running[w] - 1) \div request.repeat) + 1])])
    /\ running' = [t \in DOMAIN running \ {w} |-> running[t]]
    /\ live' = live \ {w}
    /\ UNCHANGED <<probeKind, stdin, stdinClosed, stdout, stderr, exitStatus, ppc, request,
                   response, counters, i, j, result, baseline_threads, current_threads,
                   baseline_thread_count, current_thread_count, nextTid, spawned,
                   parallelism, outcome, outcomes, stdoutOpen, mode, opc, orchResponse, cpc,
                   bridgeRequest, bridgeResult, health, target, language, selected, rpc,
                   language_filter, discovery, unhealthy, ra, ti, sent, analysisLog,
                   runError, escapes, summary, program, source, warnings, spc, count, inputs,
                   prior_count, prior_inputs, now, files, generated, clock, start, captured,
                   creator, scope, paths, source_file>>

\* The target run by worker w panics; catch_unwind turns it into Err(payload),
\* which the worker sends.
TargetPanic(w, payload) ==
    /\ exitStatus = "running"
    /\ w \in DOMAIN running
    /\ chan' = Send(chan, w, [kind |-> "Err", payload |-> payload])
    /\ running' = [t \in DOMAIN running \ {w} |-> running[t]]
    /\ live' = live \ {w}
    /\ UNCHANGED <<probeKind, stdin, stdinClosed, stdout, stderr, exitStatus, ppc, request,
                   response, counters, i, j, result, baseline_threads, current_threads,
                   baseline_thread_count, current_thread_count, nextTid, spawned,
                   parallelism, outcome, outcomes, stdoutOpen, mode, opc, orchResponse, cpc,
                   bridgeRequest, bridgeResult, health, target, language, selected, rpc,
                   language_filter, discovery, unhealthy, ra, ti, sent, analysisLog,
                   runError, escapes, summary, program, source, warnings, spc, count, inputs,
                   prior_count, prior_inputs, now, files, generated, clock, start, captured,
                   creator, scope, paths, source_file>>

\* A thread that a target started ends.
ThreadExit(t) ==
    /\ exitStatus = "running"
    /\ t \in live \ {1}
    /\ t \notin DOMAIN running
    /\ live' = live \ {t}
    /\ UNCHANGED <<probeKind, stdin, stdinClosed, stdout, stderr, exitStatus, ppc, request,
                   response, counters, i, j, result, baseline_threads, current_threads,
                   baseline_thread_count, current_thread_count, chan, nextTid, running,
                   spawned, parallelism, outcome, outcomes, stdoutOpen, mode, opc,
                   orchResponse, cpc, bridgeRequest, bridgeResult, health, target, language,
                   selected, rpc, language_filter, discovery, unhealthy, ra, ti, sent,
                   analysisLog, runError, escapes, summary, program, source, warnings, spc,
                   count, inputs, prior_count, prior_inputs, now, files, generated, clock,
                   start, captured, creator, scope, paths, source_file>>

\* The CPU set or quota of the probe process changes under it.
Parallelisms == {1, 2}

ParallelismChange ==
    /\ exitStatus = "running"
    /\ probeKind = "rust-bridge"
    /\ ppc \in {"spawn", "recv", "grace", "delta"}
    /\ parallelism' \in Parallelisms \ {parallelism}
    /\ UNCHANGED <<probeKind, stdin, stdinClosed, stdout, stderr, exitStatus, ppc, request,
                   response, counters, i, j, result, baseline_threads, current_threads,
                   baseline_thread_count, current_thread_count, chan, live, nextTid, running,
                   spawned, outcome, outcomes, stdoutOpen, mode, opc, orchResponse, cpc,
                   bridgeRequest, bridgeResult, health, target, language, selected, rpc,
                   language_filter, discovery, unhealthy, ra, ti, sent, analysisLog,
                   runError, escapes, summary, program, source, warnings, spc, count, inputs,
                   prior_count, prior_inputs, now, files, generated, clock, start, captured,
                   creator, scope, paths, source_file>>

\* ------------------------------------------------------- the probe on its own
\* What may arrive on the probe's standard input: a complete request, nothing,
\* a request cut short, text that is no JSON, JSON that is no AnalyzeRequest.
StdinStreams(maxTests) ==
    {ToJson(RequestFields(r)) : r \in Requests(maxTests)}
    \cup {<<>>, <<OpenTok, FieldTok("session_id", "s1")>>, <<TextTok("not json")>>,
          ToJson(<< <<"ping", "x">> >>)}

\* No probe process exists.
ProbeAbsent ==
    /\ stdin = <<>>
    /\ stdinClosed = FALSE
    /\ stdout = <<>>
    /\ stderr = <<>>
    /\ exitStatus = "not started"
    /\ ppc = "absent"
    /\ request = NoRequest
    /\ response = NoResponse
    /\ counters = ZeroCounters
    /\ i = 1
    /\ j = 1
    /\ result = NewResult("")
    /\ baseline_threads = {}
    /\ current_threads = {}
    /\ baseline_thread_count = 0
    /\ current_thread_count = 0
    /\ chan = EmptyChan
    /\ live = {}
    /\ nextTid = 2
    /\ running = <<>>
    /\ spawned = 0
    /\ outcome = "pending"
    /\ outcomes = <<>>
    /\ stdoutOpen = TRUE

\* No analyze_target session and no bridge call exist.
OrchAbsent ==
    /\ mode = "Dynamic"
    /\ opc = "absent"
    /\ orchResponse = NoResponse
    /\ cpc = "absent"
    /\ bridgeRequest = NoRequest
    /\ bridgeResult = NoResult
    /\ health = "unchecked"

\* find_analyzer is not being called.
FindAbsent ==
    /\ target = <<>>
    /\ language = "None"
    /\ selected = "absent"

\* run_all_tests is not running.
RunAllAbsent ==
    /\ rpc = "absent"
    /\ language_filter = "None"
    /\ discovery = <<>>
    /\ unhealthy = {}
    /\ ra = 1
    /\ ti = 1
    /\ sent = <<>>
    /\ analysisLog = <<>>
    /\ runError = "None"

\* StaticEscapeSummary::new
NewStaticSummary ==
    [total_escapes |-> 0, return_escapes |-> 0, parameter_escapes |-> 0,
     global_escapes |-> 0, closure_escapes |-> 0, heap_escapes |-> 0,
     concurrency_escapes |-> 0, high_confidence |-> 0, medium_confidence |-> 0,
     low_confidence |-> 0]

\* No source file is being scanned.
ScannerAbsent ==
    /\ program = [sig |-> "none", stmts |-> <<>>]
    /\ source = <<>>
    /\ warnings = <<>>
    /\ spc = "absent"

\* No invocation is being supervised and no target has started a thread.
SupervisionAbsent ==
    /\ clock = 0
    /\ start = 0
    /\ captured = NoCapture
    /\ creator = <<>>

\* Largest clock value reached.
MaxTicks == 4

\* Clock ticks in one second.
TicksPerSecond == 2

\* A session directory holding no file; a file is <<>> when absent, else <<content>>.
EmptyDir == [readme |-> <<>>, csv |-> <<>>, vulnerabilities |-> <<>>]

\* ReportGenerator::generate has not been called; the output root is empty.
ReportAbsent ==
    /\ now = 0
    /\ files = [t \in 0..(MaxTicks \div TicksPerSecond) |-> EmptyDir]
    /\ generated = [result |-> "None", dir |-> 0, response |-> <<>>]

\* No static scanner has been handed a target.
ScopeAbsent == scope = [kind |-> "absent", name |-> <<>>]

\* resolve_source_file has not been called.
ResolveAbsent == paths = {} /\ source_file = <<>>

\* generate_inputs has not been called.
GenerateAbsent ==
    /\ count = 0
    /\ inputs = <<>>
    /\ prior_count = 0
    /\ prior_inputs = <<>>

\* No static analysis is running.
StaticAbsent ==
    /\ escapes = <<>>
    /\ summary = NewStaticSummary
    /\ ScannerAbsent

ProbeInitFrom(streams) ==
    /\ probeKind \in {"rust", "rust-bridge"}
    /\ stdin \in streams
    /\ stdinClosed = TRUE
    /\ stdout = <<>>
    /\ stderr = <<>>
    /\ exitStatus = "running"
    /\ ppc = "read_stdin"
    /\ request = NoRequest
    /\ response = NoResponse
    /\ counters = ZeroCounters
    /\ i = 1
    /\ j = 1
    /\ result = NewResult("")
    /\ baseline_threads = {}
    /\ current_threads = {}
    /\ baseline_thread_count = 0
    /\ current_thread_count = 0
    /\ chan = EmptyChan
    /\ live = {1}
    /\ nextTid = 2
    /\ running = <<>>
    /\ spawned = 0
    /\ parallelism \in Parallelisms
    /\ outcome = "pending"
    /\ outcomes = <<>>
    /\ stdoutOpen = TRUE
    /\ OrchAbsent
    /\ FindAbsent
    /\ RunAllAbsent
    /\ StaticAbsent
    /\ GenerateAbsent
    /\ ResolveAbsent
    /\ ScopeAbsent
    /\ SupervisionAbsent
    /\ ReportAbsent

ProbeInit == ProbeInitFrom(StdinStreams(MaxTests))

ProbeMain ==
    \/ MainParsed
    \/ MainParseFailed
    \/ Baseline
    \/ SpawnWorker
    \/ RecvOutcome
    \/ RecvTimeout
    \/ Grace
    \/ Delta
    \/ TallyAndPush
    \/ Finish

ProbeThreads ==
    \/ \E w \in DOMAIN running : TargetSpawn(w)
    \/ \E w \in DOMAIN running : TargetReturn(w)
    \/ \E w \in DOMAIN running, payload \in PanicMessages : TargetPanic(w, payload)
    \/ \E t \in live : ThreadExit(t)
    \/ ParallelismChange

ProbeNext == ProbeMain \/ ProbeThreads

SpecProbe == ProbeInit /\ [][ProbeNext]_vars

\* --------------------------------------------------------- bridge client
\* src/protocol.rs AnalyzeResponse: the fields Deserialize requires (an Option
\* field may be absent).
OrchResponseRequired ==
    {"session_id", "language", "analyzer_version", "analysis_mode", "results",
     "vulnerabilities", "summary"}

\* serde_json::from_slice(&output.stdout) into the orchestrator's AnalyzeResponse.
ParsedResponse(text) ==
    [session_id |-> JsonGet(text, "session_id"), language |-> JsonGet(text, "language"),
     analyzer_version |-> JsonGet(text, "analyzer_version"),
     analysis_mode |-> JsonGet(text, "analysis_mode"), results |-> JsonGet(text, "results"),
     vulnerabilities |-> JsonGet(text, "vulnerabilities"), summary |-> JsonGet(text, "summary"),
     static_analysis |-> "None"]

\* The text has `part` as a run of consecutive words.
ContainsText(text, part) ==
    \E o \in 0..Len(text) :
        o + Len(part) <= Len(text) /\ SubSeq(text, o + 1, o + Len(part)) = part

\* anyhow::bail!("{} analyzer failed: {}", self.lang, stderr)
FailedText(err) == <<"analyzer failed:">> \o err

\* The io::Error of a write to a pipe whose reader is gone.
BrokenPipeText(err) == <<"Broken pipe">>

\* execute_bridge: Command::spawn succeeds; the child process starts. The
\* Rust handle's health check fails only when the probe binary is missing,
\* and then there is nothing to spawn.
ClientSpawn ==
    /\ cpc = "spawn"
    /\ health = "failed" => probeKind \notin RustProbes
    /\ exitStatus' = "running"
    /\ ppc' = "read_stdin"
    /\ live' = {1}
    /\ cpc' = "write"
    /\ UNCHANGED <<probeKind, stdin, stdinClosed, stdout, stderr, request, response,
                   counters, i, j, result, baseline_threads, current_threads,
                   baseline_thread_count, current_thread_count, chan, nextTid, running,
                   spawned, parallelism, outcome, outcomes, stdoutOpen, mode, opc,
                   orchResponse, bridgeRequest, bridgeResult, health, target, language,
                   selected, rpc, language_filter, discovery, unhealthy, ra, ti, sent,
                   analysisLog, runError, escapes, summary, program, source, warnings, spc,
                   count, inputs, prior_count, prior_inputs, now, files, generated, clock,
                   start, captured, creator, scope, paths, source_file>>

\* execute_bridge: Command::spawn fails.
ClientSpawnFailed ==
    /\ cpc = "spawn"
    /\ bridgeResult' = [kind |-> "Err", text |-> <<"Failed to spawn analyzer">>]
    /\ cpc' = "returned"
    /\ UNCHANGED <<probeKind, stdin, stdinClosed, stdout, stderr, exitStatus, ppc, request,
                   response, counters, i, j, result, baseline_threads, current_threads,
                   baseline_thread_count, current_thread_count, chan, live, nextTid, running,
                   spawned, parallelism, outcome, outcomes, stdoutOpen, mode, opc,
                   orchResponse, bridgeRequest, health, target, language, selected, rpc,
                   language_filter, discovery, unhealthy, ra, ti, sent, analysisLog,
                   runError, escapes, summary, program, source, warnings, spc, count, inputs,
                   prior_count, prior_inputs, now, files, generated, clock, start, captured,
                   creator, scope, paths, source_file>>

\* execute_bridge: write_all, flush and drop of the child's stdin.
ClientWrite ==
    /\ cpc = "write"
    /\ exitStatus = "running"
    /\ stdin' = ToJson(RequestFields(bridgeRequest))
    /\ stdinClosed' = TRUE
    /\ cpc' = "wait"
    /\ UNCHANGED <<probeKind, stdout, stderr, exitStatus, ppc, request, response, counters,
                   i, j, result, baseline_threads, current_threads, baseline_thread_count,
                   current_thread_count, chan, live, nextTid, running, spawned, parallelism,
                   outcome, outcomes, stdoutOpen, mode, opc, orchResponse, bridgeRequest,
                   bridgeResult, health, target, language, selected, rpc, language_filter,
                   discovery, unhealthy, ra, ti, sent, analysisLog, runError, escapes,
                   summary, program, source, warnings, spc, count, inputs, prior_count,
                   prior_inputs, now, files, generated, clock, start, captured, creator,
                   scope, paths, source_file>>

\* execute_bridge: the child has exited, write_all fails and `?` returns the
\* io error; wait_with_output is never reached.
ClientWriteBrokenPipe ==
    /\ cpc = "write"
    /\ exitStatus # "running"
    /\ bridgeResult' = [kind |-> "Err", text |-> BrokenPipeText(stderr)]
    /\ stdoutOpen' = FALSE
    /\ cpc' = "returned"
    /\ UNCHANGED <<probeKind, stdin, stdinClosed, stdout, stderr, exitStatus, ppc, request,
                   response, counters, i, j, result, baseline_threads, current_threads,
                   baseline_thread_count, current_thread_count, chan, live, nextTid, running,
                   spawned, parallelism, outcome, outcomes, mode, opc, orchResponse,
                   bridgeRequest, health, target, language, selected, rpc, language_filter,
                   discovery, unhealthy, ra, ti, sent, analysisLog, runError, escapes,
                   summary, program, source, warnings, spc, count, inputs, prior_count,
                   prior_inputs, now, files, generated, clock, start, captured, creator,
                   scope, paths, source_file>>

\* execute_bridge: wait_with_output returns a status that is not success.
ClientWaitFailed ==
    /\ cpc = "wait"
    /\ exitStatus \notin {"running", ExitSuccess}
    /\ bridgeResult' = [kind |-> "Err", text |-> FailedText(stderr)]
    /\ stdoutOpen' = FALSE
    /\ cpc' = "returned"
    /\ UNCHANGED <<probeKind, stdin, stdinClosed, stdout, stderr, exitStatus, ppc, request,
                   response, counters, i, j, result, baseline_threads, current_threads,
                   baseline_thread_count, current_thread_count, chan, live, nextTid, running,
                   spawned, parallelism, outcome, outcomes, mode, opc, orchResponse,
                   bridgeRequest, health, target, language, selected, rpc, language_filter,
                   discovery, unhealthy, ra, ti, sent, analysisLog, runError, escapes,
                   summary, program, source, warnings, spc, count, inputs, prior_count,
                   prior_inputs, now, files, generated, clock, start, captured, creator,
                   scope, paths, source_file>>

\* execute_bridge: the status is success and stdout parses.
ClientWaitParsed ==
    /\ cpc = "wait"
    /\ exitStatus = ExitSuccess
    /\ FromJsonOk(stdout, OrchResponseRequired)
    /\ bridgeResult' = [kind |-> "Ok", response |-> ParsedResponse(stdout)]
    /\ stdoutOpen' = FALSE
    /\ cpc' = "returned"
    /\ UNCHANGED <<probeKind, stdin, stdinClosed, stdout, stderr, exitStatus, ppc, request,
                   response, counters, i, j, result, baseline_threads, current_threads,
                   baseline_thread_count, current_thread_count, chan, live, nextTid, running,
                   spawned, parallelism, outcome, outcomes, mode, opc, orchResponse,
                   bridgeRequest, health, target, language, selected, rpc, language_filter,
                   discovery, unhealthy, ra, ti, sent, analysisLog, runError, escapes,
                   summary, program, source, warnings, spc, count, inputs, prior_count,
                   prior_inputs, now, files, generated, clock, start, captured, creator,
                   scope, paths, source_file>>

\* execute_bridge: the status is success and stdout does not parse.
ClientWaitUnparsed ==
    /\ cpc = "wait"
    /\ exitStatus = ExitSuccess
    /\ ~FromJsonOk(stdout, OrchResponseRequired)
    /\ bridgeResult' = [kind |-> "Err", text |-> <<"Failed to parse analyzer response">>]
    /\ stdoutOpen' = FALSE
    /\ cpc' = "returned"
    /\ UNCHANGED <<probeKind, stdin, stdinClosed, stdout, stderr, exitStatus, ppc, request,
                   response, counters, i, j, result, baseline_threads, current_threads,
                   baseline_thread_count, current_thread_count, chan, live, nextTid, running,
                   spawned, parallelism, outcome, outcomes, mode, opc, orchResponse,
                   bridgeRequest, health, target, language, selected, rpc, language_filter,
                   discovery, unhealthy, ra, ti, sent, analysisLog, runError, escapes,
                   summary, program, source, warnings, spc, count, inputs, prior_count,
                   prior_inputs, now, files, generated, clock, start, captured, creator,
                   scope, paths, source_file>>

\* The execute_bridge future is dropped while the child runs (the call is
\* cancelled, or the orchestrator process ends): the pipes' ends held by the
\* client close; the Command was built without kill_on_drop, so the child
\* runs on.
BridgeDropped ==
    /\ cpc \in {"write", "wait"}
    /\ exitStatus = "running"
    /\ stdinClosed' = TRUE
    /\ stdoutOpen' = FALSE
    /\ cpc' = "dropped"
    /\ opc' = "cancelled"
    /\ UNCHANGED <<probeKind, stdin, stdout, stderr, exitStatus, ppc, request, response,
                   counters, i, j, result, baseline_threads, current_threads,
                   baseline_thread_count, current_thread_count, chan, live, nextTid, running,
                   spawned, parallelism, outcome, outcomes, mode, orchResponse,
                   bridgeRequest, bridgeResult, health, target, language, selected, rpc,
                   language_filter, discovery, unhealthy, ra, ti, sent, analysisLog,
                   runError, escapes, summary, program, source, warnings, spc, count, inputs,
                   prior_count, prior_inputs, now, files, generated, clock, start, captured,
                   creator, scope, paths, source_file>>

\* The child ends with a failure status before it reads its standard input
\* (the interpreter cannot open the bridge script, the loader cannot start
\* the binary).
ChildFailsEarly ==
    /\ cpc \in {"write", "wait"}
    /\ exitStatus = "running"
    /\ ppc = "read_stdin"
    /\ stderr' = <<"cannot start probe">>
    /\ exitStatus' = ExitFailure
    /\ ppc' = "exited"
    /\ live' = {}
    /\ UNCHANGED <<probeKind, stdin, stdinClosed, stdout, request, response, counters, i, j,
                   result, baseline_threads, current_threads, baseline_thread_count,
                   current_thread_count, chan, nextTid, running, spawned, parallelism,
                   outcome, outcomes, stdoutOpen, mode, opc, orchResponse, cpc,
                   bridgeRequest, bridgeResult, health, target, language, selected, rpc,
                   language_filter, discovery, unhealthy, ra, ti, sent, analysisLog,
                   runError, escapes, summary, program, source, warnings, spc, count, inputs,
                   prior_count, prior_inputs, now, files, generated, clock, start, captured,
                   creator, scope, paths, source_file>>

\* ----------------------------------------------------------- orchestrator
\* run_static_analysis's response around the scanner's result.
StaticResponse(analysis_mode) ==
    [session_id |-> "uuid-static", language |-> "rust", analyzer_version |-> "1.0.0-static",
     analysis_mode |-> analysis_mode, results |-> <<>>, vulnerabilities |-> <<>>,
     summary |-> DefaultSummary, static_analysis |-> "static_result"]

\* Mutant: the merge does not take the dynamic vulnerabilities.
MergeWithoutVulnerabilities(resp, dynamic_response) ==
    [resp EXCEPT !.results = dynamic_response.results,
                 !.summary = dynamic_response.summary]

\* Mutant: the dynamic response is the template and takes the static result.
MergeOntoDynamic(resp, dynamic_response) ==
    [dynamic_response EXCEPT !.static_analysis = resp.static_analysis]

\* analyze_target: the dynamic response merged into the static one.
Merge(resp, dynamic_response) ==
    [resp EXCEPT !.results = dynamic_response.results,
                 !.vulnerabilities = @ \o dynamic_response.vulnerabilities,
                 !.summary = dynamic_response.summary]

\* analyze_target: run_static_analysis returns its response.
OrchStaticOk ==
    /\ opc = "start"
    /\ mode \in {"Static", "Both"}
    /\ orchResponse' = StaticResponse(mode)
    /\ opc' = IF mode = "Both" THEN "static_done" ELSE "done"
    /\ UNCHANGED <<probeKind, stdin, stdinClosed, stdout, stderr, exitStatus, ppc, request,
                   response, counters, i, j, result, baseline_threads, current_threads,
                   baseline_thread_count, current_thread_count, chan, live, nextTid, running,
                   spawned, parallelism, outcome, outcomes, stdoutOpen, mode, cpc,
                   bridgeRequest, bridgeResult, health, target, language, selected, rpc,
                   language_filter, discovery, unhealthy, ra, ti, sent, analysisLog,
                   runError, escapes, summary, program, source, warnings, spc, count, inputs,
                   prior_count, prior_inputs, now, files, generated, clock, start, captured,
                   creator, scope, paths, source_file>>

\* analyze_target: run_static_analysis fails and `?` ends the session.
OrchStaticFailed ==
    /\ opc = "start"
    /\ mode \in {"Static", "Both"}
    /\ opc' = "failed"
    /\ UNCHANGED <<probeKind, stdin, stdinClosed, stdout, stderr, exitStatus, ppc, request,
                   response, counters, i, j, result, baseline_threads, current_threads,
                   baseline_thread_count, current_thread_count, chan, live, nextTid, running,
                   spawned, parallelism, outcome, outcomes, stdoutOpen, mode, orchResponse,
                   cpc, bridgeRequest, bridgeResult, health, target, language, selected, rpc,
                   language_filter, discovery, unhealthy, ra, ti, sent, analysisLog,
                   runError, escapes, summary, program, source, warnings, spc, count, inputs,
                   prior_count, prior_inputs, now, files, generated, clock, start, captured,
                   creator, scope, paths, source_file>>

\* run_dynamic_analysis: the handle's health_check returns; a failure is
\* logged with warn! and the function goes on.
OrchHealthCheck ==
    /\ \/ opc = "start" /\ mode = "Dynamic"
       \/ opc = "static_done"
    /\ \E h \in {"healthy", "failed"} : health' = h
    /\ opc' = "health_checked"
    /\ UNCHANGED <<probeKind, stdin, stdinClosed, stdout, stderr, exitStatus, ppc, request,
                   response, counters, i, j, result, baseline_threads, current_threads,
                   baseline_thread_count, current_thread_count, chan, live, nextTid, running,
                   spawned, parallelism, outcome, outcomes, stdoutOpen, mode, orchResponse,
                   cpc, bridgeRequest, bridgeResult, target, language, selected, rpc,
                   language_filter, discovery, unhealthy, ra, ti, sent, analysisLog,
                   runError, escapes, summary, program, source, warnings, spc, count, inputs,
                   prior_count, prior_inputs, now, files, generated, clock, start, captured,
                   creator, scope, paths, source_file>>

\* run_dynamic_analysis: the request is built and handed to the analyzer.
OrchDynamicStart ==
    /\ opc = "health_checked"
    /\ \E r \in Requests(MaxBridgeTests) :
         bridgeRequest' = [r EXCEPT !.session_id = "uuid-dynamic", !.analysis_mode = mode]
    /\ cpc' = "spawn"
    /\ opc' = "dynamic"
    /\ UNCHANGED <<probeKind, stdin, stdinClosed, stdout, stderr, exitStatus, ppc, request,
                   response, counters, i, j, result, baseline_threads, current_threads,
                   baseline_thread_count, current_thread_count, chan, live, nextTid, running,
                   spawned, parallelism, outcome, outcomes, stdoutOpen, mode, orchResponse,
                   bridgeResult, health, target, language, selected, rpc, language_filter,
                   discovery, unhealthy, ra, ti, sent, analysisLog, runError, escapes,
                   summary, program, source, warnings, spc, count, inputs, prior_count,
                   prior_inputs, now, files, generated, clock, start, captured, creator,
                   scope, paths, source_file>>

\* analyze_target: the analyzer returned an error and `?` ends the session.
OrchDynamicFailed ==
    /\ opc = "dynamic"
    /\ cpc = "returned"
    /\ bridgeResult.kind = "Err"
    /\ opc' = "failed"
    /\ UNCHANGED <<probeKind, stdin, stdinClosed, stdout, stderr, exitStatus, ppc, request,
                   response, counters, i, j, result, baseline_threads, current_threads,
                   baseline_thread_count, current_thread_count, chan, live, nextTid, running,
                   spawned, parallelism, outcome, outcomes, stdoutOpen, mode, orchResponse,
                   cpc, bridgeRequest, bridgeResult, health, target, language, selected, rpc,
                   language_filter, discovery, unhealthy, ra, ti, sent, analysisLog,
                   runError, escapes, summary, program, source, warnings, spc, count, inputs,
                   prior_count, prior_inputs, now, files, generated, clock, start, captured,
                   creator, scope, paths, source_file>>

\* analyze_target: the dynamic response becomes the response, merged into
\* the static one when there is one.
OrchDynamicOk ==
    /\ opc = "dynamic"
    /\ cpc = "returned"
    /\ bridgeResult.kind = "Ok"
    /\ orchResponse' = IF orchResponse # NoResponse
                       THEN Merge(orchResponse, bridgeResult.response)
                       ELSE bridgeResult.response
    /\ opc' = "done"
    /\ UNCHANGED <<probeKind, stdin, stdinClosed, stdout, stderr, exitStatus, ppc, request,
                   response, counters, i, j, result, baseline_threads, current_threads,
                   baseline_thread_count, current_thread_count, chan, live, nextTid, running,
                   spawned, parallelism, outcome, outcomes, stdoutOpen, mode, cpc,
                   bridgeRequest, bridgeResult, health, target, language, selected, rpc,
                   language_filter, discovery, unhealthy, ra, ti, sent, analysisLog,
                   runError, escapes, summary, program, source, warnings, spc, count, inputs,
                   prior_count, prior_inputs, now, files, generated, clock, start, captured,
                   creator, scope, paths, source_file>>

BridgeInit ==
    /\ probeKind \in ProbeKinds
    /\ parallelism \in Parallelisms
    /\ ProbeAbsent
    /\ mode \in {"Dynamic", "Static", "Both"}
    /\ opc = "start"
    /\ orchResponse = NoResponse
    /\ cpc = "idle"
    /\ bridgeRequest = NoRequest
    /\ bridgeResult = NoResult
    /\ health = "unchecked"
    /\ FindAbsent
    /\ RunAllAbsent
    /\ StaticAbsent
    /\ GenerateAbsent
    /\ ResolveAbsent
    /\ ScopeAbsent
    /\ SupervisionAbsent
    /\ ReportAbsent

Client ==
    \/ ClientSpawn
    \/ ClientSpawnFailed
    \/ ClientWrite
    \/ ClientWriteBrokenPipe
    \/ ClientWaitFailed
    \/ ClientWaitParsed
    \/ ClientWaitUnparsed

Orchestrator ==
    \/ OrchStaticOk
    \/ OrchStaticFailed
    \/ OrchHealthCheck
    \/ OrchDynamicStart
    \/ OrchDynamicFailed
    \/ OrchDynamicOk

BridgeNext ==
    \/ Orchestrator
    \/ Client
    \/ BridgeDropped
    \/ ChildFailsEarly
    \/ ProbeMain
    \/ FinishBrokenPipe
    \/ ProbeThreads

SpecBridge == BridgeInit /\ [][BridgeNext]_vars

\* The main thread fairly scheduled: recv_timeout returns when a message is
\* there or the timeout has passed, the sleep ends, every other step is
\* straight-line code. Nothing is assumed of the target or its threads.
FairProbeInit == ProbeInitFrom(StdinStreams(MaxFairTests))

FairSpecProbe == FairProbeInit /\ [][ProbeNext]_vars /\ WF_vars(ProbeMain)

\* The orchestrator's task fairly scheduled by its runtime: every step of
\* analyze_target and execute_bridge that can be taken is taken. Nothing is
\* assumed of the child process: execute_bridge sets no timer on it.
FairSpecBridge ==
    BridgeInit /\ [][BridgeNext]_vars /\ WF_vars(Client) /\ WF_vars(Orchestrator)

\* ----------------------------------------------------------------- claims
Started == ppc \notin {"absent", "read_stdin"} /\ exitStatus # ExitFailure

\* EscapeDetails::is_empty
is_empty(d) ==
    /\ d.threads = <<>>
    /\ d.processes = <<>>
    /\ d.async_tasks = <<>>
    /\ d.goroutines = <<>>
    /\ d.other = <<>>

CountOf(S) == Cardinality(S)

\* C1: results holds one ExecutionResult per (input, repeat) pair, in input
\* order with the repeat index varying fastest: the k-th result echoes input
\* ((k-1) div repeat) + 1, the number of results always matches the loop
\* position, and on exit total_tests = len(results) = len(inputs) * repeat,
\* whatever the outcomes were.
C1_OneResultPerPair ==
    Started =>
        /\ \A k \in DOMAIN response.results :
               response.results[k].input_data =
                   request.inputs[((k - 1) \div request.repeat) + 1]
        /\ Len(response.results) = (i - 1) * request.repeat + (j - 1)
        /\ Len(outcomes) = Len(response.results)
        /\ exitStatus = ExitSuccess =>
               /\ Len(response.results) = Len(request.inputs) * request.repeat
               /\ response.summary.total_tests = Len(response.results)
               /\ JsonGet(stdout, "results") = response.results

C1_Witness ==
    /\ exitStatus = ExitSuccess
    /\ Len(request.inputs) = 2
    /\ request.repeat = 2
    /\ Len(outcomes) = 4
    /\ outcomes[1] = "TimedOut"
    /\ outcomes[2] = "Faulted"
    /\ outcomes[3] = "Completed"

ExclusiveFor(res, oc) ==
    /\ res.success <=> ~res.crashed
    /\ res.success <=> oc = "Completed"
    /\ res.crashed <=> oc \in {"Faulted", "TimedOut"}

\* C2: every ExecutionResult execute_test returns has exactly one of success
\* and crashed set: success iff the worker delivered a value before the
\* timeout, crashed iff it delivered a panic or nothing.
C2_SuccessXorCrashed ==
    Started =>
        /\ \A k \in DOMAIN response.results : ExclusiveFor(response.results[k], outcomes[k])
        /\ ppc = "tally" => ExclusiveFor(result, outcome)

C2_Witness ==
    /\ Started
    /\ Len(response.results) >= 2
    /\ response.results[1].crashed
    /\ outcomes[1] = "TimedOut"
    /\ response.results[2].success
    /\ ppc = "tally"
    /\ outcome = "Faulted"

\* C3: escape_detected is true iff one of the five escape_details lists is
\* non-empty, for every result of either probe.
C3_EscapeFlagIffDetails ==
    Started =>
        /\ \A k \in DOMAIN response.results :
               response.results[k].escape_detected <=> ~is_empty(response.results[k].escape_details)
        /\ ppc = "tally" => (result.escape_detected <=> ~is_empty(result.escape_details))

C3_Witness ==
    /\ Started
    /\ probeKind = "rust"
    /\ Len(response.results) >= 2
    /\ response.results[1].escape_detected
    /\ Len(response.results[1].escape_details.threads) = 1
    /\ ~response.results[2].escape_detected

\* C5: timeouts counts the results whose outcome was TimedOut, escapes those
\* with escape_detected, genuine_escapes those with escape_detected whose
\* outcome was not TimedOut; a Faulted outcome is never counted as a timeout.
C5_SummaryCounts ==
    Started =>
        LET rs == response.results
            timedOut == {k \in DOMAIN rs : outcomes[k] = "TimedOut"}
            escaping == {k \in DOMAIN rs : rs[k].escape_detected}
        IN  /\ counters.timeouts = CountOf(timedOut)
            /\ counters.escapes = CountOf(escaping)
            /\ counters.genuine_escapes = CountOf(escaping \ timedOut)
            /\ exitStatus = ExitSuccess =>
                   /\ response.summary.timeouts = CountOf(timedOut)
                   /\ response.summary.escapes = CountOf(escaping)
                   /\ response.summary.genuine_escapes = CountOf(escaping \ timedOut)
                   /\ response.summary.genuine_escapes <= response.summary.escapes

C5_Witness ==
    /\ exitStatus = ExitSuccess
    /\ response.summary.timeouts = 1
    /\ response.summary.escapes = 2
    /\ response.summary.genuine_escapes = 1
    /\ \E k \in DOMAIN outcomes : outcomes[k] = "Faulted"
    /\ \E k \in DOMAIN outcomes : outcomes[k] = "TimedOut" /\ response.results[k].escape_detected

\* C6: once the probe has a request it eventually prints its response and
\* exits, even when targets never return: an invocation with nothing
\* delivered is classified TimedOut and the loop goes on.
C6_ProbeTerminates == Started ~> (exitStatus = ExitSuccess /\ IsJsonObject(stdout))

C6_Witness ==
    /\ ppc = "loop"
    /\ ~HasNext
    /\ Len(outcomes) = 2
    /\ \A k \in DOMAIN outcomes : outcomes[k] = "TimedOut"
    /\ Cardinality(DOMAIN running) = 2

\* C7: in analyzers/rust the thread ids listed in escape_details.threads are
\* exactly post \ baseline, each once, and no baseline id is listed.
C7_ThreadsAreSetDifference ==
    (ppc = "tally" /\ probeKind = "rust") =>
        LET listed == result.escape_details.threads
            ids == {listed[k].thread_id : k \in DOMAIN listed}
        IN  /\ ids = {ToString(t) : t \in current_threads \ baseline_threads}
            /\ Len(listed) = Cardinality(current_threads \ baseline_threads)
            /\ \A t \in baseline_threads : ToString(t) \notin ids

C7_Witness ==
    /\ ppc = "tally"
    /\ probeKind = "rust"
    /\ Cardinality(baseline_threads) = 2
    /\ Len(result.escape_details.threads) = 2

\* The fields analyzers/rust's AnalyzeResponse always serializes.
ProbeResponseKeys ==
    {"session_id", "language", "analyzer_version", "results", "vulnerabilities", "summary"}

\* C8: the probe prints a syntactically valid AnalyzeResponse whatever arrives
\* on its standard input, an empty or cut-short stream and text that is no
\* AnalyzeRequest included.
C8_AlwaysAResponse == ppc = "exited" => FromJsonOk(stdout, ProbeResponseKeys)

Escaping(results) == SelectSeq(results, LAMBDA r : r.escape_detected)

\* `vulns` lists the escaping results of `results`, one entry each, in order.
Corresponds(results, vulns) ==
    /\ Len(vulns) = Len(Escaping(results))
    /\ \A k \in DOMAIN vulns :
           /\ vulns[k].input = Escaping(results)[k].input_data
           /\ vulns[k].escape_details = Escaping(results)[k].escape_details
           /\ vulns[k].vulnerability_type = "concurrent_escape"
           /\ vulns[k].severity = "high"

\* C4: vulnerabilities has one entry per result with escape_detected, in the
\* order of those results, the k-th carrying the input and escape_details of
\* the k-th escaping result with type "concurrent_escape" and severity
\* "high": while the probe collects them, in the response it prints, and in
\* the response the orchestrator ends with in Dynamic and Both modes.
C4_VulnerabilitiesMatchEscapes ==
    /\ Started => Corresponds(response.results, response.vulnerabilities)
    /\ exitStatus = ExitSuccess =>
           Corresponds(JsonGet(stdout, "results"), JsonGet(stdout, "vulnerabilities"))
    /\ (opc = "done" /\ mode \in {"Dynamic", "Both"}) =>
           Corresponds(orchResponse.results, orchResponse.vulnerabilities)

C4_Witness ==
    /\ opc = "done"
    /\ mode = "Both"
    /\ orchResponse.static_analysis = "static_result"
    /\ Len(orchResponse.results) = 2
    /\ ~orchResponse.results[1].escape_detected
    /\ orchResponse.results[2].escape_detected
    /\ Len(orchResponse.vulnerabilities) = 1
    /\ orchResponse.vulnerabilities[1].input = orchResponse.results[2].input_data

\* C9: a response a Rust probe prints before exiting 0 is accepted by the
\* bridge client: whenever execute_bridge returns after such a run it returns
\* the parsed response, never a parse error.
C9_ProbeResponseAccepted ==
    (cpc = "returned" /\ probeKind \in RustProbes /\ exitStatus = ExitSuccess) =>
        bridgeResult.kind = "Ok"

\* C10: when the child ended with a non-zero status, execute_bridge returns an
\* error whose text contains the child's stderr, whether the child ended
\* before or after the request was written; and stdout is parsed as a
\* response only when the status is success.
C10_NonZeroExitSurfacesStderr ==
    /\ (cpc = "returned" /\ exitStatus \in {ExitFailure, ExitPanic}) =>
           /\ bridgeResult.kind = "Err"
           /\ ContainsText(bridgeResult.text, stderr)
    /\ (cpc = "returned" /\ bridgeResult.kind = "Ok") => exitStatus = ExitSuccess

\* C11: the wait for the probe child is bounded: once execute_bridge waits
\* for the child it eventually stops waiting, with a response or an error,
\* even when the child never exits.
C11_ChildWaitBounded == (cpc = "wait") ~> (cpc # "wait")

\* C12: when the bridge call is dropped while the child runs, the child is
\* terminated: no child of a dropped call is still running.
C12_DroppedCallKillsChild == cpc = "dropped" => exitStatus # "running"

\* ---------------------------------------------------------- find_analyzer
\* Strings the predicates inspect are sequences of characters.
\* str::ends_with
EndsWith(s, suffix) ==
    Len(suffix) <= Len(s) /\ SubSeq(s, Len(s) - Len(suffix) + 1, Len(s)) = suffix

\* The canonical extension of each language's sources.
Extension ==
    [python |-> <<".", "p", "y">>, java |-> <<".", "j", "a", "v", "a">>,
     javascript |-> <<".", "j", "s">>, go |-> <<".", "g", "o">>, rust |-> <<".", "r", "s">>]

\* AnalyzerRegistry::initialize_all: the handles in registration order.
Registry == <<"python", "java", "javascript", "go", "rust">>

\* The can_handle predicate of each language's analyzer.
can_handle(lang, t) ==
    CASE lang = "python" -> EndsWith(t, <<".", "p", "y">>) \/ ~ContainsText(t, <<".">>)
      [] lang = "java" ->
            EndsWith(t, <<".", "j", "a", "v", "a">>) \/ ContainsText(t, <<".", "j", "a", "r", ":">>)
      [] lang = "javascript" ->
            \/ EndsWith(t, <<".", "j", "s">>)
            \/ EndsWith(t, <<".", "m", "j", "s">>)
            \/ EndsWith(t, <<".", "c", "j", "s">>)
      [] lang = "go" -> EndsWith(t, <<".", "g", "o">>)
      [] lang = "rust" -> EndsWith(t, <<".", "r", "s">>) \/ ContainsText(t, <<":", ":">>)

\* Iterator::find over the registry: the first handle among the accepted ones.
FirstHandle(accepted) ==
    IF \E k \in DOMAIN Registry : Registry[k] \in accepted
    THEN Registry[CHOOSE k \in DOMAIN Registry :
                      /\ Registry[k] \in accepted
                      /\ \A h \in 1..(k - 1) : Registry[h] \notin accepted]
    ELSE "None"

\* AnalyzerRegistry::find_analyzer
find_analyzer(t, lang) ==
    IF lang # "None"
    THEN FirstHandle({lang})
    ELSE FirstHandle({Registry[k] : k \in {h \in DOMAIN Registry : can_handle(Registry[h], t)}})

\* Source stems and symbols of the targets asked about.
Stems == {<<"a">>, <<"d", "/", "a">>, <<"a", "_", "b">>, <<"l", "i", "b">>}

Symbols == {<<"f">>, <<"m", "a", "i", "n">>, <<"r", "u", "n">>}

\* Targets in the two admitted forms, bare path and <source>:<symbol>, whose
\* source carries one canonical extension.
Targets ==
    {stem \o Extension[l] : stem \in Stems, l \in DOMAIN Extension}
    \cup {stem \o Extension[l] \o <<":">> \o sym :
             stem \in Stems, l \in DOMAIN Extension, sym \in Symbols}

\* The language whose canonical extension the target's source carries.
ExtensionLanguage(t) ==
    CHOOSE l \in DOMAIN Extension :
        EndsWith(t, Extension[l]) \/ ContainsText(t, Extension[l] \o <<":">>)

\* run_dynamic_analysis: registry.find_analyzer(target, language)
FindAnalyzer ==
    /\ selected = "pending"
    /\ selected' = find_analyzer(target, language)
    /\ UNCHANGED <<probeKind, stdin, stdinClosed, stdout, stderr, exitStatus, ppc, request,
                   response, counters, i, j, result, baseline_threads, current_threads,
                   baseline_thread_count, current_thread_count, chan, live, nextTid, running,
                   spawned, parallelism, outcome, outcomes, stdoutOpen, mode, opc,
                   orchResponse, cpc, bridgeRequest, bridgeResult, health, target, language,
                   rpc, language_filter, discovery, unhealthy, ra, ti, sent, analysisLog,
                   runError, escapes, summary, program, source, warnings, spc, count, inputs,
                   prior_count, prior_inputs, now, files, generated, clock, start, captured,
                   creator, scope, paths, source_file>>

FindInit ==
    /\ probeKind = "rust"
    /\ parallelism = 1
    /\ ProbeAbsent
    /\ OrchAbsent
    /\ RunAllAbsent
    /\ StaticAbsent
    /\ GenerateAbsent
    /\ ResolveAbsent
    /\ ScopeAbsent
    /\ SupervisionAbsent
    /\ ReportAbsent
    /\ target \in Targets
    /\ language \in {"None"} \cup DOMAIN Extension
    /\ selected = "pending"

SpecFind == FindInit /\ [][FindAnalyzer]_vars

Accepting(t) == {k \in DOMAIN Registry : can_handle(Registry[k], t)}

\* C13: for a target in either form whose source carries one canonical
\* extension, exactly one of the five can_handle predicates accepts it, the
\* one of that extension's language, and auto-detection (no --language)
\* selects that language's handle.
C13_OnePredicateAccepts ==
    (selected \notin {"pending", "absent"} /\ language = "None") =>
        /\ Cardinality(Accepting(target)) = 1
        /\ \A k \in Accepting(target) : Registry[k] = ExtensionLanguage(target)
        /\ selected = ExtensionLanguage(target)

\* C14: when the selected handle's health check failed, no AnalyzeRequest is
\* sent to that handle's probe in the session (nothing is written to the
\* probe's standard input), and the session does not end in failure for
\* the health failure alone.
C14_UnhealthyHandleNotUsed ==
    health = "failed" =>
        /\ stdin = <<>>
        /\ opc = "failed" => bridgeResult.kind = "Err"

\* C15: in Both mode, when both analyses succeeded, the merged response is
\* the static response with three changes: results and summary are the
\* dynamic ones and vulnerabilities is the static list followed by the
\* dynamic list; static_analysis and every other field stay the static
\* response's.
C15_MergeKeepsStaticFrame ==
    (opc = "done" /\ mode = "Both") =>
        LET static == StaticResponse(mode)
            dynamic == bridgeResult.response
        IN  /\ orchResponse.results = dynamic.results
            /\ orchResponse.vulnerabilities = static.vulnerabilities \o dynamic.vulnerabilities
            /\ orchResponse.summary = dynamic.summary
            /\ orchResponse.static_analysis = static.static_analysis
            /\ orchResponse.static_analysis # "None"
            /\ orchResponse.session_id = static.session_id
            /\ orchResponse.language = static.language
            /\ orchResponse.analyzer_version = static.analyzer_version
            /\ orchResponse.analysis_mode = static.analysis_mode

C15_Witness ==
    /\ opc = "done"
    /\ mode = "Both"
    /\ bridgeResult.kind = "Ok"
    /\ bridgeResult.response.session_id # orchResponse.session_id
    /\ bridgeResult.response.analyzer_version # orchResponse.analyzer_version
    /\ Len(orchResponse.results) = 2
    /\ Len(orchResponse.vulnerabilities) = 2
    /\ orchResponse.summary.total_tests = 2

\* ---------------------------------------------------------- run_all_tests
MaxTargets == 2

\* normalize_language_filter
normalize_language_filter(f) ==
    CASE f \in {"js", "node", "nodejs", "javascript"} -> "javascript"
      [] f \in {"py", "python"} -> "python"
      [] OTHER -> f

\* What discover_targets_for_language returns for a language: Ok with the
\* targets found (none when the language directory is missing), or the Err
\* of a read_dir or read_to_string that failed.
DiscoveryResults ==
    {[ok |-> TRUE, n |-> n] : n \in 0..MaxTargets} \cup {[ok |-> FALSE, n |-> 0]}

\* discover_targets_for_language over the registry; "go" is always Ok(empty).
Discoveries ==
    {d \in [{Registry[k] : k \in DOMAIN Registry} -> DiscoveryResults] :
        d["go"] = [ok |-> TRUE, n |-> 0]}

\* run_all_tests: the analyzer of this iteration.
analyzer == Registry[ra]

\* run_all_tests: the analyzer's language is not the filter's; continue.
RunAllFiltered ==
    /\ rpc = "analyzers"
    /\ ra <= Len(Registry)
    /\ language_filter # "None"
    /\ analyzer # normalize_language_filter(language_filter)
    /\ ra' = ra + 1
    /\ ti' = 1
    /\ rpc' = "analyzers"
    /\ UNCHANGED <<probeKind, stdin, stdinClosed, stdout, stderr, exitStatus, ppc, request,
                   response, counters, i, j, result, baseline_threads, current_threads,
                   baseline_thread_count, current_thread_count, chan, live, nextTid, running,
                   spawned, parallelism, outcome, outcomes, stdoutOpen, mode, opc,
                   orchResponse, cpc, bridgeRequest, bridgeResult, health, target, language,
                   selected, language_filter, discovery, unhealthy, sent, analysisLog,
                   runError, escapes, summary, program, source, warnings, spc, count, inputs,
                   prior_count, prior_inputs, now, files, generated, clock, start, captured,
                   creator, scope, paths, source_file>>

\* The filter lets the analyzer of this iteration through.
PassesFilter(lang) ==
    language_filter = "None" \/ lang = normalize_language_filter(language_filter)

\* run_all_tests: health_check fails; warn and continue.
RunAllUnhealthy ==
    /\ rpc = "analyzers"
    /\ ra <= Len(Registry)
    /\ PassesFilter(analyzer)
    /\ analyzer \in unhealthy
    /\ ra' = ra + 1
    /\ ti' = 1
    /\ rpc' = "analyzers"
    /\ UNCHANGED <<probeKind, stdin, stdinClosed, stdout, stderr, exitStatus, ppc, request,
                   response, counters, i, j, result, baseline_threads, current_threads,
                   baseline_thread_count, current_thread_count, chan, live, nextTid, running,
                   spawned, parallelism, outcome, outcomes, stdoutOpen, mode, opc,
                   orchResponse, cpc, bridgeRequest, bridgeResult, health, target, language,
                   selected, language_filter, discovery, unhealthy, sent, analysisLog,
                   runError, escapes, summary, program, source, warnings, spc, count, inputs,
                   prior_count, prior_inputs, now, files, generated, clock, start, captured,
                   creator, scope, paths, source_file>>

\* run_all_tests: discover_targets_for_language returns Err and `?` returns
\* it from run_all_tests.
RunAllDiscoveryFailed ==
    /\ rpc = "analyzers"
    /\ ra <= Len(Registry)
    /\ PassesFilter(analyzer)
    /\ analyzer \notin unhealthy
    /\ ~discovery[analyzer].ok
    /\ runError' = "discovery"
    /\ rpc' = "returned"
    /\ UNCHANGED <<probeKind, stdin, stdinClosed, stdout, stderr, exitStatus, ppc, request,
                   response, counters, i, j, result, baseline_threads, current_threads,
                   baseline_thread_count, current_thread_count, chan, live, nextTid, running,
                   spawned, parallelism, outcome, outcomes, stdoutOpen, mode, opc,
                   orchResponse, cpc, bridgeRequest, bridgeResult, health, target, language,
                   selected, language_filter, discovery, unhealthy, ra, ti, sent,
                   analysisLog, escapes, summary, program, source, warnings, spc, count,
                   inputs, prior_count, prior_inputs, now, files, generated, clock, start,
                   captured, creator, scope, paths, source_file>>

\* run_all_tests: no targets were found; warn and continue.
RunAllNoTargets ==
    /\ rpc = "analyzers"
    /\ ra <= Len(Registry)
    /\ PassesFilter(analyzer)
    /\ analyzer \notin unhealthy
    /\ discovery[analyzer].ok
    /\ discovery[analyzer].n = 0
    /\ ra' = ra + 1
    /\ ti' = 1
    /\ rpc' = "analyzers"
    /\ UNCHANGED <<probeKind, stdin, stdinClosed, stdout, stderr, exitStatus, ppc, request,
                   response, counters, i, j, result, baseline_threads, current_threads,
                   baseline_thread_count, current_thread_count, chan, live, nextTid, running,
                   spawned, parallelism, outcome, outcomes, stdoutOpen, mode, opc,
                   orchResponse, cpc, bridgeRequest, bridgeResult, health, target, language,
                   selected, language_filter, discovery, unhealthy, sent, analysisLog,
                   runError, escapes, summary, program, source, warnings, spc, count, inputs,
                   prior_count, prior_inputs, now, files, generated, clock, start, captured,
                   creator, scope, paths, source_file>>

\* run_all_tests: targets were found; the loop over them starts.
RunAllDiscovered ==
    /\ rpc = "analyzers"
    /\ ra <= Len(Registry)
    /\ PassesFilter(analyzer)
    /\ analyzer \notin unhealthy
    /\ discovery[analyzer].ok
    /\ discovery[analyzer].n > 0
    /\ ti' = 1
    /\ rpc' = "targets"
    /\ UNCHANGED <<probeKind, stdin, stdinClosed, stdout, stderr, exitStatus, ppc, request,
                   response, counters, i, j, result, baseline_threads, current_threads,
                   baseline_thread_count, current_thread_count, chan, live, nextTid, running,
                   spawned, parallelism, outcome, outcomes, stdoutOpen, mode, opc,
                   orchResponse, cpc, bridgeRequest, bridgeResult, health, target, language,
                   selected, language_filter, discovery, unhealthy, ra, sent, analysisLog,
                   runError, escapes, summary, program, source, warnings, spc, count, inputs,
                   prior_count, prior_inputs, now, files, generated, clock, start, captured,
                   creator, scope, paths, source_file>>

\* run_all_tests: the current target is the analyzer's last one.
LastTarget == ti >= discovery[analyzer].n

\* run_all_tests: the request for the target is sent, analyze returns Ok and
\* the report is generated.
RunAllAnalysisOk ==
    /\ rpc = "targets"
    /\ sent' = Append(sent, <<analyzer, ti>>)
    /\ analysisLog' = Append(analysisLog, "Ok")
    /\ ti' = IF LastTarget THEN 1 ELSE ti + 1
    /\ ra' = IF LastTarget THEN ra + 1 ELSE ra
    /\ rpc' = IF LastTarget THEN "analyzers" ELSE "targets"
    /\ UNCHANGED <<probeKind, stdin, stdinClosed, stdout, stderr, exitStatus, ppc, request,
                   response, counters, i, j, result, baseline_threads, current_threads,
                   baseline_thread_count, current_thread_count, chan, live, nextTid, running,
                   spawned, parallelism, outcome, outcomes, stdoutOpen, mode, opc,
                   orchResponse, cpc, bridgeRequest, bridgeResult, health, target, language,
                   selected, language_filter, discovery, unhealthy, runError, escapes,
                   summary, program, source, warnings, spc, count, inputs, prior_count,
                   prior_inputs, now, files, generated, clock, start, captured, creator,
                   scope, paths, source_file>>

\* run_all_tests: the request is sent and analyze returns Err; warn, go on.
RunAllAnalysisFailed ==
    /\ rpc = "targets"
    /\ sent' = Append(sent, <<analyzer, ti>>)
    /\ analysisLog' = Append(analysisLog, "Err")
    /\ ti' = IF LastTarget THEN 1 ELSE ti + 1
    /\ ra' = IF LastTarget THEN ra + 1 ELSE ra
    /\ rpc' = IF LastTarget THEN "analyzers" ELSE "targets"
    /\ UNCHANGED <<probeKind, stdin, stdinClosed, stdout, stderr, exitStatus, ppc, request,
                   response, counters, i, j, result, baseline_threads, current_threads,
                   baseline_thread_count, current_thread_count, chan, live, nextTid, running,
                   spawned, parallelism, outcome, outcomes, stdoutOpen, mode, opc,
                   orchResponse, cpc, bridgeRequest, bridgeResult, health, target, language,
                   selected, language_filter, discovery, unhealthy, runError, escapes,
                   summary, program, source, warnings, spc, count, inputs, prior_count,
                   prior_inputs, now, files, generated, clock, start, captured, creator,
                   scope, paths, source_file>>

\* run_all_tests: the request is sent, analyze returns Ok, report_gen.generate
\* returns Err and `?` returns it from run_all_tests.
RunAllReportFailed ==
    /\ rpc = "targets"
    /\ sent' = Append(sent, <<analyzer, ti>>)
    /\ analysisLog' = Append(analysisLog, "Ok")
    /\ runError' = "report"
    /\ rpc' = "returned"
    /\ UNCHANGED <<probeKind, stdin, stdinClosed, stdout, stderr, exitStatus, ppc, request,
                   response, counters, i, j, result, baseline_threads, current_threads,
                   baseline_thread_count, current_thread_count, chan, live, nextTid, running,
                   spawned, parallelism, outcome, outcomes, stdoutOpen, mode, opc,
                   orchResponse, cpc, bridgeRequest, bridgeResult, health, target, language,
                   selected, language_filter, discovery, unhealthy, ra, ti, escapes, summary,
                   program, source, warnings, spc, count, inputs, prior_count, prior_inputs,
                   now, files, generated, clock, start, captured, creator, scope, paths,
                   source_file>>

\* run_all_tests: the loop over the analyzers is over; Ok(()).
RunAllDone ==
    /\ rpc = "analyzers"
    /\ ra > Len(Registry)
    /\ rpc' = "returned"
    /\ UNCHANGED <<probeKind, stdin, stdinClosed, stdout, stderr, exitStatus, ppc, request,
                   response, counters, i, j, result, baseline_threads, current_threads,
                   baseline_thread_count, current_thread_count, chan, live, nextTid, running,
                   spawned, parallelism, outcome, outcomes, stdoutOpen, mode, opc,
                   orchResponse, cpc, bridgeRequest, bridgeResult, health, target, language,
                   selected, language_filter, discovery, unhealthy, ra, ti, sent,
                   analysisLog, runError, escapes, summary, program, source, warnings, spc,
                   count, inputs, prior_count, prior_inputs, now, files, generated, clock,
                   start, captured, creator, scope, paths, source_file>>

RunAllInit ==
    /\ probeKind = "rust"
    /\ parallelism = 1
    /\ ProbeAbsent
    /\ OrchAbsent
    /\ FindAbsent
    /\ StaticAbsent
    /\ GenerateAbsent
    /\ ResolveAbsent
    /\ ScopeAbsent
    /\ SupervisionAbsent
    /\ ReportAbsent
    /\ rpc = "analyzers"
    /\ language_filter \in {"None", "rust", "py"}
    /\ discovery \in Discoveries
    /\ unhealthy \in SUBSET {"python", "rust"}
    /\ ra = 1
    /\ ti = 1
    /\ sent = <<>>
    /\ analysisLog = <<>>
    /\ runError = "None"

RunAllNext ==
    \/ RunAllFiltered
    \/ RunAllUnhealthy
    \/ RunAllDiscoveryFailed
    \/ RunAllNoTargets
    \/ RunAllDiscovered
    \/ RunAllAnalysisOk
    \/ RunAllAnalysisFailed
    \/ RunAllReportFailed
    \/ RunAllDone

SpecRunAll == RunAllInit /\ [][RunAllNext]_vars

\* The requests a run that skips every failure sends: one per discovered
\* target of every healthy analyzer the filter lets through.
ExpectedRequests ==
    {<<Registry[k], n>> : k \in DOMAIN Registry, n \in 1..MaxTargets} \cap
    {q \in (DOMAIN discovery) \X (1..MaxTargets) :
        /\ PassesFilter(q[1])
        /\ q[1] \notin unhealthy
        /\ discovery[q[1]].ok
        /\ q[2] <= discovery[q[1]].n}

\* C16: neither a failed analysis of a target nor a failed discovery for a
\* language stops run-all: when it returns (not for a report that could not
\* be written) every discovered target of every healthy analyzer has been
\* sent to its probe, one request each.
C16_RunAllSkipsFailures ==
    (rpc = "returned" /\ runError # "report") =>
        /\ {sent[k] : k \in DOMAIN sent} = ExpectedRequests
        /\ Len(sent) = Cardinality(ExpectedRequests)
        /\ runError = "None"

\* ------------------------------------------------------ StaticEscapeSummary
MaxEscapes == 3

\* protocol.rs EscapeType
EscapeTypes ==
    {"ReturnEscape", "ParameterEscape", "GlobalEscape", "ClosureEscape", "HeapEscape",
     "ConcurrencyEscape", "UnknownEscape"}

\* protocol.rs ConfidenceLevel
ConfidenceLevels == {"Low", "Medium", "High"}

\* The fields of a StaticEscape that add_escape reads.
StaticEscapes == [escape_type : EscapeTypes, confidence : ConfidenceLevels]

\* add_escape: the match on escape.escape_type.
WithKind(sm, escape) ==
    CASE escape.escape_type = "ReturnEscape" -> [sm EXCEPT !.return_escapes = @ + 1]
      [] escape.escape_type = "ParameterEscape" -> [sm EXCEPT !.parameter_escapes = @ + 1]
      [] escape.escape_type = "GlobalEscape" -> [sm EXCEPT !.global_escapes = @ + 1]
      [] escape.escape_type = "ClosureEscape" -> [sm EXCEPT !.closure_escapes = @ + 1]
      [] escape.escape_type = "HeapEscape" -> [sm EXCEPT !.heap_escapes = @ + 1]
      [] escape.escape_type = "ConcurrencyEscape" -> [sm EXCEPT !.concurrency_escapes = @ + 1]
      [] escape.escape_type = "UnknownEscape" -> sm

\* add_escape: the match on escape.confidence.
WithConfidence(sm, escape) ==
    CASE escape.confidence = "High" -> [sm EXCEPT !.high_confidence = @ + 1]
      [] escape.confidence = "Medium" -> [sm EXCEPT !.medium_confidence = @ + 1]
      [] escape.confidence = "Low" -> [sm EXCEPT !.low_confidence = @ + 1]

\* Mutant: an escape of unknown kind does not count in total_escapes.
add_escape_skipping_unknown(sm, escape) ==
    WithConfidence(
        WithKind(IF escape.escape_type = "UnknownEscape"
                 THEN sm
                 ELSE [sm EXCEPT !.total_escapes = @ + 1], escape), escape)

\* StaticEscapeSummary::add_escape
add_escape(sm, escape) ==
    WithConfidence(WithKind([sm EXCEPT !.total_escapes = @ + 1], escape), escape)

\* A caller adds one more escape to its list and to the summary.
AddEscape ==
    /\ Len(escapes) < MaxEscapes
    /\ \E escape \in StaticEscapes :
         /\ escapes' = Append(escapes, escape)
         /\ summary' = add_escape(summary, escape)
    /\ UNCHANGED <<probeKind, stdin, stdinClosed, stdout, stderr, exitStatus, ppc, request,
                   response, counters, i, j, result, baseline_threads, current_threads,
                   baseline_thread_count, current_thread_count, chan, live, nextTid, running,
                   spawned, parallelism, outcome, outcomes, stdoutOpen, mode, opc,
                   orchResponse, cpc, bridgeRequest, bridgeResult, health, target, language,
                   selected, rpc, language_filter, discovery, unhealthy, ra, ti, sent,
                   analysisLog, runError, program, source, warnings, spc, count, inputs,
                   prior_count, prior_inputs, now, files, generated, clock, start, captured,
                   creator, scope, paths, source_file>>

SummaryInit ==
    /\ probeKind = "rust"
    /\ parallelism = 1
    /\ ProbeAbsent
    /\ OrchAbsent
    /\ FindAbsent
    /\ RunAllAbsent
    /\ escapes = <<>>
    /\ summary = NewStaticSummary
    /\ ScannerAbsent
    /\ GenerateAbsent
    /\ ResolveAbsent
    /\ ScopeAbsent
    /\ SupervisionAbsent
    /\ ReportAbsent

SpecSummary == SummaryInit /\ [][AddEscape]_vars

UnknownCount == Cardinality({k \in DOMAIN escapes : escapes[k].escape_type = "UnknownEscape"})

\* C17: after any sequence of add_escape calls from new(), total_escapes is
\* the number of calls, the three per-confidence counters sum to it, and the
\* six per-kind counters sum to it minus the number of UnknownEscape added.
C17_StaticSummarySums ==
    /\ summary.total_escapes = Len(escapes)
    /\ summary.high_confidence + summary.medium_confidence + summary.low_confidence
           = summary.total_escapes
    /\ summary.return_escapes + summary.parameter_escapes + summary.global_escapes
           + summary.closure_escapes + summary.heap_escapes + summary.concurrency_escapes
           = summary.total_escapes - UnknownCount

C17_Witness ==
    /\ Len(escapes) = 3
    /\ escapes[1].escape_type = "UnknownEscape"
    /\ escapes[2].escape_type = "ConcurrencyEscape"
    /\ escapes[3].escape_type = "HeapEscape"
    /\ escapes[1].confidence = "Low"
    /\ escapes[2].confidence = "High"
    /\ summary.total_escapes = 3
    /\ summary.concurrency_escapes = 1

\* ------------------------------------------------- Rust static scanner
\* Source text is a sequence of lines, a line a sequence of characters.
\* char::is_alphanumeric or '_', over the characters sources are written in.
IdentChars ==
    {"a", "b", "c", "d", "e", "f", "g", "h", "i", "j", "k", "l", "m", "n", "o", "p", "q",
     "r", "s", "t", "u", "v", "w", "x", "y", "z", "A", "B", "C", "D", "E", "F", "G", "H",
     "I", "J", "K", "L", "M", "N", "O", "P", "Q", "R", "S", "T", "U", "V", "W", "X", "Y",
     "Z", "0", "1", "2", "3", "4", "5", "6", "7", "8", "9", "_"}

\* str::find: the offset of the first occurrence of pat in s, -1 for None.
Find(s, pat) ==
    IF ContainsText(s, pat)
    THEN CHOOSE o \in 0..(Len(s) - Len(pat)) :
             /\ SubSeq(s, o + 1, o + Len(pat)) = pat
             /\ \A q \in 0..(o - 1) : SubSeq(s, q + 1, q + Len(pat)) # pat
    ELSE -1

\* &s[o..]
From(s, o) == SubSeq(s, o + 1, Len(s))

\* str::starts_with
StartsWith(s, prefix) == Len(prefix) <= Len(s) /\ SubSeq(s, 1, Len(prefix)) = prefix

\* str::trim_start
TrimStart(s) ==
    LET n == CHOOSE n \in 0..Len(s) :
                 /\ \A k \in 1..n : s[k] = " "
                 /\ n = Len(s) \/ s[n + 1] # " "
    IN  From(s, n)

\* str::trim_end
TrimEnd(s) ==
    LET n == CHOOSE n \in 0..Len(s) :
                 /\ \A k \in (n + 1)..Len(s) : s[k] = " "
                 /\ n = 0 \/ s[n] # " "
    IN  SubSeq(s, 1, n)

\* str::trim
Trim(s) == TrimEnd(TrimStart(s))

\* sanitize_ident: the leading run of identifier characters; <<>> is None.
sanitize_ident(value) ==
    LET n == CHOOSE n \in 0..Len(value) :
                 /\ \A k \in 1..n : value[k] \in IdentChars
                 /\ n = Len(value) \/ value[n + 1] \notin IdentChars
    IN  SubSeq(value, 1, n)

\* extract_fn_name: the identifier after the first "fn "; <<>> is None.
extract_fn_name(line) ==
    IF Find(line, <<"f", "n", " ">>) = -1 THEN <<>> ELSE sanitize_ident(From(line, Find(line, <<"f", "n", " ">>) + 3))

\* count_braces
count_braces(line) ==
    Cardinality({k \in DOMAIN line : line[k] = "{"})
        - Cardinality({k \in DOMAIN line : line[k] = "}"})

\* extract_let_binding: the name a `let` on the line binds; <<>> is None.
extract_let_binding(line) ==
    IF Find(line, <<"l", "e", "t", " ">>) = -1
    THEN <<>>
    ELSE LET remainder == TrimStart(From(line, Find(line, <<"l", "e", "t", " ">>) + 4))
         IN  IF StartsWith(remainder, <<"(">>)
             THEN <<>>
             ELSE IF StartsWith(remainder, <<"m", "u", "t", " ">>)
                  THEN sanitize_ident(TrimStart(From(remainder, 4)))
                  ELSE sanitize_ident(remainder)

\* is_thread_creation's patterns.
ThreadPatterns ==
    {<<"t", "h", "r", "e", "a", "d", ":", ":", "s", "p", "a", "w", "n">>, <<"s", "t", "d", ":", ":", "t", "h", "r", "e", "a", "d", ":", ":", "s", "p", "a", "w", "n">>, <<"t", "o", "k", "i", "o", ":", ":", "s", "p", "a", "w", "n">>, <<"t", "o", "k", "i", "o", ":", ":", "t", "a", "s", "k", ":", ":", "s", "p", "a", "w", "n">>, <<"t", "h", "r", "e", "a", "d", ":", ":", "B", "u", "i", "l", "d", "e", "r">>}

\* is_thread_creation
is_thread_creation(line) == \E pat \in ThreadPatterns : ContainsText(line, pat)

\* extract_join_call: the identifier before the line's first '.', when the
\* line has ".join()" or ".await"; <<>> is None.
extract_join_call(line) ==
    IF ~(ContainsText(line, <<".", "j", "o", "i", "n", "(", ")">>) \/ ContainsText(line, <<".", "a", "w", "a", "i", "t">>))
    THEN <<>>
    ELSE LET before_dot == SubSeq(line, 1, Find(line, <<".">>))
             idents == {k \in DOMAIN before_dot : before_dot[k] \in IdentChars}
         IN  IF idents = {}
             THEN <<>>
             ELSE LET last == CHOOSE e \in idents : \A k \in idents : k <= e
                      first == CHOOSE b \in 1..last :
                                   /\ \A k \in b..last : k \in idents
                                   /\ b = 1 \/ (b - 1) \notin idents
                  IN  SubSeq(before_dot, first, last)

\* str::split on one character: the parts between its occurrences.
RECURSIVE Split(_, _)
Split(s, ch) ==
    IF Find(s, <<ch>>) = -1
    THEN <<s>>
    ELSE <<SubSeq(s, 1, Find(s, <<ch>>))>> \o Split(From(s, Find(s, <<ch>>) + 1), ch)

\* str::trim_start_matches('&')
TrimStartAmp(s) ==
    LET n == CHOOSE n \in 0..Len(s) :
                 /\ \A k \in 1..n : s[k] = "&"
                 /\ n = Len(s) \/ s[n + 1] # "&"
    IN  From(s, n)

\* extract_params: the name one argument of the signature declares; <<>>
\* when it declares none.
ParamName(part) ==
    LET arg == Trim(part)
    IN  IF arg = <<>>
        THEN <<>>
        ELSE IF StartsWith(arg, <<"s", "e", "l", "f">>) \/ StartsWith(arg, <<"&", "s", "e", "l", "f">>) \/ StartsWith(arg, <<"&", "m", "u", "t", " ", "s", "e", "l", "f">>)
             THEN <<"s", "e", "l", "f">>
             ELSE LET named == IF Find(arg, <<":">>) = -1
                               THEN arg
                               ELSE SubSeq(arg, 1, Find(arg, <<":">>))
                      bare == Trim(TrimStartAmp(Trim(named)))
                      name == IF StartsWith(bare, <<"m", "u", "t", " ">>) THEN Trim(From(bare, 4)) ELSE Trim(bare)
                  IN  sanitize_ident(name)

\* extract_params
extract_params(signature) ==
    LET open == Find(signature, <<"(">>)
        rest == From(signature, open + 1)
    IN  IF open = -1 \/ Find(rest, <<")">>) = -1
        THEN {}
        ELSE LET args == Split(SubSeq(rest, 1, Find(rest, <<")">>)), ",")
             IN  {ParamName(args[k]) : k \in DOMAIN args} \ {<<>>}

\* The StaticEscape a detector builds.
Escape(escape_type, line_number, function_name, variable_name, confidence) ==
    [escape_type |-> escape_type, line |-> line_number, function |-> function_name,
     variable_name |-> variable_name, confidence |-> confidence]

\* detect_return_escape: the escapes the line adds (none or one).
detect_return_escape(line, line_number, function_name, locals) ==
    IF Find(line, <<"r", "e", "t", "u", "r", "n", " ">>) = -1
    THEN <<>>
    ELSE LET name == sanitize_ident(Trim(From(line, Find(line, <<"r", "e", "t", "u", "r", "n", " ">>) + 7)))
         IN  IF name = <<>> \/ name \notin locals
             THEN <<>>
             ELSE <<Escape("ReturnEscape", line_number, function_name, name, "High")>>

\* detect_heap_escape's patterns.
HeapPatterns ==
    {<<"B", "o", "x", ":", ":", "n", "e", "w">>, <<"V", "e", "c", ":", ":", "n", "e", "w">>, <<"S", "t", "r", "i", "n", "g", ":", ":", "n", "e", "w">>, <<"A", "r", "c", ":", ":", "n", "e", "w">>, <<"R", "c", ":", ":", "n", "e", "w">>, <<"H", "a", "s", "h", "M", "a", "p", ":", ":", "n", "e", "w">>,
     <<"H", "a", "s", "h", "S", "e", "t", ":", ":", "n", "e", "w">>}

\* detect_heap_escape: the escapes the line adds (none or one).
detect_heap_escape(line, line_number, function_name) ==
    IF ~\E pat \in HeapPatterns : ContainsText(line, pat)
    THEN <<>>
    ELSE LET var == IF extract_let_binding(line) = <<>>
                    THEN <<"<", "u", "n", "k", "n", "o", "w", "n", ">">>
                    ELSE extract_let_binding(line)
         IN  <<Escape("HeapEscape", line_number, function_name, var, "Medium")>>

\* detect_concurrency's patterns, in the order it tries them.
ConcurrencyPatterns ==
    <<<<"s", "t", "d", ":", ":", "t", "h", "r", "e", "a", "d", ":", ":", "s", "p", "a", "w", "n">>, <<"t", "h", "r", "e", "a", "d", ":", ":", "s", "p", "a", "w", "n">>, <<"t", "o", "k", "i", "o", ":", ":", "s", "p", "a", "w", "n">>, <<"t", "o", "k", "i", "o", ":", ":", "t", "a", "s", "k", ":", ":", "s", "p", "a", "w", "n">>,
      <<"s", "t", "d", ":", ":", "t", "h", "r", "e", "a", "d", ":", ":", "B", "u", "i", "l", "d", "e", "r">>>>

\* detect_concurrency: the escapes the line adds (none or one).
detect_concurrency(line, line_number, function_name) ==
    LET hits == {k \in DOMAIN ConcurrencyPatterns : ContainsText(line, ConcurrencyPatterns[k])}
    IN  IF hits = {}
        THEN <<>>
        ELSE LET k == CHOOSE k \in hits : \A h \in hits : k <= h
             IN  <<Escape("ConcurrencyEscape", line_number, function_name,
                          ConcurrencyPatterns[k], "High")>>

\* analyze_function: the index of the last line the inner `while` pulls into
\* the signature that starts at line k.
SignatureEnd(lines, k) ==
    IF \E e \in k..Len(lines) : ContainsText(lines[e], <<"{">>)
    THEN CHOOSE e \in k..Len(lines) :
             /\ ContainsText(lines[e], <<"{">>)
             /\ \A m \in k..(e - 1) : ~ContainsText(lines[m], <<"{">>)
    ELSE Len(lines)

\* analyze_function: lines k..e joined with '\n'.
RECURSIVE Signature(_, _, _)
Signature(lines, k, e) ==
    IF k = e THEN lines[k] ELSE lines[k] \o <<"\n">> \o Signature(lines, k + 1, e)

\* analyze_function: the locals of the scan before the first line.
ScanStart ==
    [in_target |-> FALSE, brace_depth |-> 0, locals |-> {}, found_function |-> FALSE,
     thread_handles |-> {}, joined_handles |-> {}, escapes |-> <<>>]

\* analyze_function: the effect of one line of the target's body.
ScanBodyLine(st, line, line_number, function_name) ==
    LET local == extract_let_binding(line)
        locals == IF local = <<>> THEN st.locals ELSE st.locals \cup {local}
        handle == extract_join_call(line)
    IN  [st EXCEPT
            !.locals = locals,
            !.thread_handles =
                IF local # <<>> /\ is_thread_creation(line) THEN @ \cup {local} ELSE @,
            !.joined_handles = IF handle = <<>> THEN @ ELSE @ \cup {handle},
            !.escapes = @ \o detect_return_escape(line, line_number, function_name, locals)
                          \o detect_heap_escape(line, line_number, function_name),
            !.brace_depth = @ + count_braces(line)]

\* analyze_function: the `while i < lines.len()` loop from line k on.
RECURSIVE Scan(_, _, _, _)
Scan(lines, function_name, k, st) ==
    IF k > Len(lines)
    THEN st
    ELSE IF ~st.in_target
         THEN IF extract_fn_name(lines[k]) # <<>> /\ extract_fn_name(lines[k]) = function_name
              THEN LET e == SignatureEnd(lines, k)
                       signature == Signature(lines, k, e)
                   IN  Scan(lines, function_name, e + 1,
                            [st EXCEPT !.found_function = TRUE,
                                       !.locals = @ \cup extract_params(signature),
                                       !.brace_depth = count_braces(signature),
                                       !.in_target = count_braces(signature) > 0])
              ELSE Scan(lines, function_name, k + 1, st)
         ELSE LET after == ScanBodyLine(st, lines[k], k, function_name)
              IN  IF after.brace_depth <= 0
                  THEN after
                  ELSE Scan(lines, function_name, k + 1, after)

\* The sum of count_braces over lines a..b.
RECURSIVE Depth(_, _, _)
Depth(lines, a, b) ==
    IF a > b THEN 0 ELSE count_braces(lines[a]) + Depth(lines, a + 1, b)

\* find_variable_line: the 1-based line of the target function that holds
\* `let <var>` or `let mut <var>`; 0 is None.
find_variable_line(lines, function_name, var_name) ==
    LET heads == {k \in DOMAIN lines :
                     extract_fn_name(lines[k]) # <<>> /\ extract_fn_name(lines[k]) = function_name}
    IN  IF heads = {}
        THEN 0
        ELSE LET head == CHOOSE k \in heads : \A h \in heads : k <= h
                 Binds(k) == \/ ContainsText(lines[k], <<"l", "e", "t", " ">> \o var_name)
                             \/ ContainsText(lines[k], <<"l", "e", "t", " ", "m", "u", "t", " ">> \o var_name)
                 Reached(k) == \A m \in (head + 1)..(k - 1) :
                                   ~Binds(m) /\ Depth(lines, head, m) > 0
                 found == {k \in (head + 1)..Len(lines) : Binds(k) /\ Reached(k)}
             IN  IF found = {} THEN 0 ELSE CHOOSE k \in found : TRUE

\* analyze_function: the ConcurrencyEscape of the unjoined handles, taken in
\* the given iteration order of the thread_handles set.
UnjoinedEscapes(lines, function_name, st, order) ==
    LET ForHandle(handle) ==
            IF handle \in st.joined_handles \/ find_variable_line(lines, function_name, handle) = 0
            THEN <<>>
            ELSE <<Escape("ConcurrencyEscape", find_variable_line(lines, function_name, handle),
                          function_name, handle, "High")>>
        Rec[k \in 0..Len(order)] == IF k = 0 THEN <<>> ELSE Rec[k - 1] \o ForHandle(order[k])
    IN  Rec[Len(order)]

\* analyze_function: the escapes found, for one iteration order of the handles.
analyze_function(lines, function_name, order) ==
    LET st == Scan(lines, function_name, 1, ScanStart)
    IN  st.escapes \o UnjoinedEscapes(lines, function_name, st, order)

\* analyze_file: detect_concurrency on every line.
analyze_file(lines) ==
    LET Rec[k \in 0..Len(lines)] ==
            IF k = 0 THEN <<>> ELSE Rec[k - 1] \o detect_concurrency(lines[k], k, <<"<", "m", "o", "d", "u", "l", "e", ">">>)
    IN  Rec[Len(lines)]

\* parse_target_function: the function part of "<source>:<symbol>"; <<>> is None.
parse_target_function(t) ==
    LET parts == Split(t, ":")
    IN  IF Len(parts) = 2 /\ Trim(parts[2]) # <<>> THEN Trim(parts[2]) ELSE <<>>

\* RustStaticAnalyzer::analyze: the summary of the escapes found.
Summarize(es) ==
    LET Rec[k \in 0..Len(es)] ==
            IF k = 0 THEN NewStaticSummary ELSE add_escape(Rec[k - 1], es[k])
    IN  Rec[Len(es)]

\* -------------------------------------------- RustStaticAnalyzer::analyze
MaxStmts == 3

\* The statements the bodies of the analysed functions are made of.
Statement ==
    [spawn_h |-> <<" ", " ", " ", " ", "l", "e", "t", " ", "h", " ", "=", " ", "t", "h", "r", "e", "a", "d", ":", ":", "s", "p", "a", "w", "n", "(", "w", "o", "r", "k", ")", ";">>,
     spawn_k |-> <<" ", " ", " ", " ", "l", "e", "t", " ", "k", " ", "=", " ", "t", "o", "k", "i", "o", ":", ":", "s", "p", "a", "w", "n", "(", "w", "o", "r", "k", "(", ")", ")", ";">>,
     spawn_unbound |-> <<" ", " ", " ", " ", "t", "h", "r", "e", "a", "d", ":", ":", "s", "p", "a", "w", "n", "(", "w", "o", "r", "k", ")", ";">>,
     join_h |-> <<" ", " ", " ", " ", "h", ".", "j", "o", "i", "n", "(", ")", ".", "u", "n", "w", "r", "a", "p", "(", ")", ";">>,
     await_k |-> <<" ", " ", " ", " ", "k", ".", "a", "w", "a", "i", "t", ";">>]

\* The layouts of the target function's signature: on one line, or spread
\* over two or three.
SignatureLines ==
    [one |-> <<<<"p", "u", "b", " ", "f", "n", " ", "f", "(", "i", "n", "p", "u", "t", ":", " ", "S", "t", "r", "i", "n", "g", ")", " ", "-", ">", " ", "S", "t", "r", "i", "n", "g", " ", "{">>>>,
     two |-> <<<<"p", "u", "b", " ", "f", "n", " ", "f", "(">>, <<" ", " ", " ", " ", "i", "n", "p", "u", "t", ":", " ", "S", "t", "r", "i", "n", "g", ")", " ", "-", ">", " ", "S", "t", "r", "i", "n", "g", " ", "{">>>>,
     three |-> <<<<"p", "u", "b", " ", "f", "n", " ", "f", "(">>, <<" ", " ", " ", " ", "i", "n", "p", "u", "t", ":", " ", "S", "t", "r", "i", "n", "g", ",">>, <<")", " ", "-", ">", " ", "S", "t", "r", "i", "n", "g", " ", "{">>>>]

\* Bodies of up to MaxStmts statements.
Bodies == UNION {[1..n -> DOMAIN Statement] : n \in 0..MaxStmts}

Programs == [sig : DOMAIN SignatureLines, stmts : Bodies]

\* The text of a program: its signature, its statements, the value it
\* returns and the closing brace.
Render(pg) ==
    SignatureLines[pg.sig] \o [k \in 1..Len(pg.stmts) |-> Statement[pg.stmts[k]]]
        \o <<<<" ", " ", " ", " ", "i", "n", "p", "u", "t">>, <<"}">>>>

\* Function-scoped and whole-file targets.
StaticTargets == {<<"a", ".", "r", "s", ":", "f">>, <<"a", ".", "r", "s">>}

\* RustStaticAnalyzer::analyze: read_to_string fails and `?` returns the error.
StaticReadFailed ==
    /\ spc = "pending"
    /\ spc' = "failed"
    /\ UNCHANGED <<probeKind, stdin, stdinClosed, stdout, stderr, exitStatus, ppc, request,
                   response, counters, i, j, result, baseline_threads, current_threads,
                   baseline_thread_count, current_thread_count, chan, live, nextTid, running,
                   spawned, parallelism, outcome, outcomes, stdoutOpen, mode, opc,
                   orchResponse, cpc, bridgeRequest, bridgeResult, health, target, language,
                   selected, rpc, language_filter, discovery, unhealthy, ra, ti, sent,
                   analysisLog, runError, escapes, summary, program, source, warnings, count,
                   inputs, prior_count, prior_inputs, now, files, generated, clock, start,
                   captured, creator, scope, paths, source_file>>

\* RustStaticAnalyzer::analyze on a source that was read.
StaticAnalyze ==
    /\ spc = "pending"
    /\ LET function_name == parse_target_function(target)
           handles == Scan(source, function_name, 1, ScanStart).thread_handles
           found == Scan(source, function_name, 1, ScanStart).found_function
       IN  /\ \E order \in Perms(handles) :
                escapes' = IF function_name # <<>>
                           THEN analyze_function(source, function_name, order)
                           ELSE analyze_file(source)
           /\ warnings' =
                  (IF function_name # <<>> /\ ~found THEN <<"function not found">> ELSE <<>>)
                  \o (IF function_name # <<>> /\ escapes' = <<>>
                      THEN <<"No Rust escapes detected by heuristic analyzer">>
                      ELSE <<>>)
    /\ summary' = Summarize(escapes')
    /\ spc' = "done"
    /\ UNCHANGED <<probeKind, stdin, stdinClosed, stdout, stderr, exitStatus, ppc, request,
                   response, counters, i, j, result, baseline_threads, current_threads,
                   baseline_thread_count, current_thread_count, chan, live, nextTid, running,
                   spawned, parallelism, outcome, outcomes, stdoutOpen, mode, opc,
                   orchResponse, cpc, bridgeRequest, bridgeResult, health, target, language,
                   selected, rpc, language_filter, discovery, unhealthy, ra, ti, sent,
                   analysisLog, runError, program, source, count, inputs, prior_count,
                   prior_inputs, now, files, generated, clock, start, captured, creator,
                   scope, paths, source_file>>

ScanInit ==
    /\ probeKind = "rust"
    /\ parallelism = 1
    /\ ProbeAbsent
    /\ OrchAbsent
    /\ RunAllAbsent
    /\ GenerateAbsent
    /\ ResolveAbsent
    /\ ScopeAbsent
    /\ SupervisionAbsent
    /\ ReportAbsent
    /\ language = "None"
    /\ selected = "absent"
    /\ target \in StaticTargets
    /\ program \in Programs
    /\ source = Render(program)
    /\ escapes = <<>>
    /\ summary = NewStaticSummary
    /\ warnings = <<>>
    /\ spc = "pending"

ScanNext == StaticAnalyze \/ StaticReadFailed

SpecScan == ScanInit /\ [][ScanNext]_vars

\* The target names a function to scope the analysis to.
FunctionScoped == parse_target_function(target) # <<>>

\* The body of the target function holds the statement.
BodyHas(stmt) == \E k \in DOMAIN program.stmts : program.stmts[k] = stmt

\* The ConcurrencyEscape with High confidence reported, all or for a variable.
ConcurrencyReports == {k \in DOMAIN escapes :
    escapes[k].escape_type = "ConcurrencyEscape" /\ escapes[k].confidence = "High"}

ReportsFor(handle) == {k \in ConcurrencyReports : escapes[k].variable_name = handle}

\* C18: function-scoped analysis reports at least one ConcurrencyEscape with
\* High confidence whenever the target's body holds a spawn call, bound to a
\* variable or not, and then summary.concurrency_escapes >= 1.
C18_SpawnIsReported ==
    (spc = "done" /\ FunctionScoped
        /\ (BodyHas("spawn_h") \/ BodyHas("spawn_k") \/ BodyHas("spawn_unbound"))) =>
        /\ ConcurrencyReports # {}
        /\ summary.concurrency_escapes >= 1

\* C19: for a located target function, with its signature on one line or
\* spread over several, a handle bound by `let h = <spawn>` yields exactly
\* one ConcurrencyEscape (High, variable_name = h) when the body has no
\* h.join() / h.await, and none when it has; a join or await on another
\* variable does not suppress it.
C19_UnjoinedHandleReportedOnce ==
    (spc = "done" /\ FunctionScoped) =>
        /\ BodyHas("spawn_h") =>
               Cardinality(ReportsFor(<<"h">>)) = IF BodyHas("join_h") THEN 0 ELSE 1
        /\ BodyHas("spawn_k") =>
               Cardinality(ReportsFor(<<"k">>)) = IF BodyHas("await_k") THEN 0 ELSE 1

\* ---------------------------------------------------------------------------
\* The input generator (orchestrator.rs, generate_inputs)
\* ---------------------------------------------------------------------------

\* Largest count requested of generate_inputs.
MaxCount == 44

\* str::repeat, by doubling
RECURSIVE Repeat(_, _)
Repeat(s, n) ==
    IF n = 0 THEN ""
    ELSE LET half == Repeat(s, n \div 2)
         IN  IF n % 2 = 0 THEN half \o half ELSE half \o half \o s

\* The seed strings generate_inputs starts from: the literals of the vec!,
\* then the five repetition patterns pushed after it.
SeedList ==
    << "", "0", "-1", "1", "true", "false", "null", "undefined", "hello",
       "\\x00", "\\n", "\\t", "'", "\"", "()", "[]", "{}", "../", "..\\",
       "${HOME}", "$(whoami)", "{{7*7}}", "%s", "error", "exception", "async",
       "await", "timeout", "deadlock", "race", "concurrent",
       "<script>alert(1)</script>", "'; DROP TABLE; --", "../../../etc/passwd",
       "\\x1b[31m", "\\u0000" >>
    \o << Repeat("A", 1024), Repeat("1", 100), Repeat("test", 50),
          Repeat(" ", 1000), Repeat("\\n", 100) >>

\* Mutant: the generated names are numbered from the current length.
RECURSIVE PushGeneratedFromLen(_, _)
PushGeneratedFromLen(list, n) ==
    IF Len(list) < n
    THEN PushGeneratedFromLen(Append(list, "input_" \o ToString(Len(list))), n)
    ELSE list

\* while inputs.len() < count { inputs.push(format!("input_{}", inputs.len() + 1)) }
RECURSIVE PushGenerated(_, _)
PushGenerated(list, n) ==
    IF Len(list) < n
    THEN PushGenerated(Append(list, "input_" \o ToString(Len(list) + 1)), n)
    ELSE list

generate_inputs(n) ==
    IF n = 0 THEN << "" >>
    ELSE IF Len(SeedList) >= n THEN SubSeq(SeedList, 1, n)
    ELSE PushGenerated(SeedList, n)

\* One call of generate_inputs; the previous call's count and result are kept.
GenerateInputs ==
    /\ \E n \in 0..MaxCount :
        /\ count' = n
        /\ inputs' = generate_inputs(n)
    /\ prior_count' = count
    /\ prior_inputs' = inputs
    /\ UNCHANGED <<probeKind, stdin, stdinClosed, stdout, stderr, exitStatus, ppc, request,
                   response, counters, i, j, result, baseline_threads, current_threads,
                   baseline_thread_count, current_thread_count, chan, live, nextTid, running,
                   spawned, parallelism, outcome, outcomes, stdoutOpen, mode, opc,
                   orchResponse, cpc, bridgeRequest, bridgeResult, health, target, language,
                   selected, rpc, language_filter, discovery, unhealthy, ra, ti, sent,
                   analysisLog, runError, escapes, summary, program, source, warnings, spc,
                   now, files, generated, clock, start, captured, creator, scope, paths,
                   source_file>>

GenerateInit ==
    /\ probeKind = "rust"
    /\ parallelism = 1
    /\ ProbeAbsent
    /\ OrchAbsent
    /\ FindAbsent
    /\ RunAllAbsent
    /\ StaticAbsent
    /\ GenerateAbsent
    /\ ResolveAbsent
    /\ ScopeAbsent
    /\ SupervisionAbsent
    /\ ReportAbsent

GenerateNext == GenerateInputs

SpecGenerate == GenerateInit /\ [][GenerateNext]_vars

\* The list the input generator is to return for a count, element by element.
ExpectedInputs(n) ==
    IF n = 0 THEN << "" >>
    ELSE [k \in 1..n |-> IF k <= Len(SeedList) THEN SeedList[k]
                         ELSE "input_" \o ToString(k)]

IsPrefix(a, b) == Len(a) <= Len(b) /\ \A k \in 1..Len(a) : a[k] = b[k]

\* C20: generate_inputs(count) is a function of count alone over the fixed
\* seed list of S strings: count = 0 gives [""], 1 <= count <= S gives the
\* first count seeds in declared order, count > S gives the S seeds followed
\* by "input_{k}" for k = S+1 .. count; the result has length max(count, 1),
\* two calls with the same count return the same list, and the result for n
\* is a prefix of the result for m whenever 1 <= n <= m.
C20_GenerateInputsShape ==
    inputs # <<>> =>
        /\ inputs = ExpectedInputs(count)
        /\ Len(inputs) = IF count >= 1 THEN count ELSE 1
        /\ prior_inputs # <<>> =>
            /\ prior_count = count => prior_inputs = inputs
            /\ (1 <= prior_count /\ prior_count <= count) => IsPrefix(prior_inputs, inputs)
            /\ (1 <= count /\ count <= prior_count) => IsPrefix(inputs, prior_inputs)

\* A call within the seed list followed by a call that goes past it.
C20_Witness ==
    /\ prior_inputs # <<>>
    /\ 1 <= prior_count /\ prior_count < Len(SeedList)
    /\ count = Len(SeedList) + 2
    /\ inputs[count] = "input_43"

\* ---------------------------------------------------------------------------
\* The report renderer (report.rs, ReportGenerator::generate)
\* ---------------------------------------------------------------------------

\* The responses handed to the renderer: a session and its vulnerabilities.
ReportResponses ==
    [session_id : {"s1", "s2"}, vulnerabilities : {<<>>, <<"v1">>}]

\* Local::now().format("%Y%m%d_%H%M%S"): the clock at second precision.
Timestamp == now \div TicksPerSecond

\* generate: the session directory is named by the timestamp; README.md and
\* results.csv are written always, vulnerabilities.md only for a non-empty list.
ReportGenerate ==
    /\ \E r \in ReportResponses :
        /\ files' = [files EXCEPT ![Timestamp] =
                        [readme |-> <<r>>,
                         csv |-> <<r>>,
                         vulnerabilities |-> IF r.vulnerabilities # <<>>
                                             THEN <<r.vulnerabilities>>
                                             ELSE @.vulnerabilities]]
        /\ generated' = [result |-> "Ok", dir |-> Timestamp, response |-> <<r>>]
    /\ UNCHANGED <<probeKind, stdin, stdinClosed, stdout, stderr, exitStatus, ppc, request,
                   response, counters, i, j, result, baseline_threads, current_threads,
                   baseline_thread_count, current_thread_count, chan, live, nextTid, running,
                   spawned, parallelism, outcome, outcomes, stdoutOpen, mode, opc,
                   orchResponse, cpc, bridgeRequest, bridgeResult, health, target, language,
                   selected, rpc, language_filter, discovery, unhealthy, ra, ti, sent,
                   analysisLog, runError, escapes, summary, program, source, warnings, spc,
                   count, inputs, prior_count, prior_inputs, now, clock, start, captured,
                   creator, scope, paths, source_file>>

\* generate: create_dir_all fails and the error is returned; nothing is written.
ReportGenerateFailed ==
    /\ \E r \in ReportResponses :
        generated' = [result |-> "Err", dir |-> Timestamp, response |-> <<r>>]
    /\ UNCHANGED <<probeKind, stdin, stdinClosed, stdout, stderr, exitStatus, ppc, request,
                   response, counters, i, j, result, baseline_threads, current_threads,
                   baseline_thread_count, current_thread_count, chan, live, nextTid, running,
                   spawned, parallelism, outcome, outcomes, stdoutOpen, mode, opc,
                   orchResponse, cpc, bridgeRequest, bridgeResult, health, target, language,
                   selected, rpc, language_filter, discovery, unhealthy, ra, ti, sent,
                   analysisLog, runError, escapes, summary, program, source, warnings, spc,
                   count, inputs, prior_count, prior_inputs, now, files, clock, start,
                   captured, creator, scope, paths, source_file>>

\* Time passes between two calls.
ReportTick ==
    /\ now < MaxTicks
    /\ now' = now + 1
    /\ UNCHANGED <<probeKind, stdin, stdinClosed, stdout, stderr, exitStatus, ppc, request,
                   response, counters, i, j, result, baseline_threads, current_threads,
                   baseline_thread_count, current_thread_count, chan, live, nextTid, running,
                   spawned, parallelism, outcome, outcomes, stdoutOpen, mode, opc,
                   orchResponse, cpc, bridgeRequest, bridgeResult, health, target, language,
                   selected, rpc, language_filter, discovery, unhealthy, ra, ti, sent,
                   analysisLog, runError, escapes, summary, program, source, warnings, spc,
                   count, inputs, prior_count, prior_inputs, files, generated, clock, start,
                   captured, creator, scope, paths, source_file>>

ReportInit ==
    /\ probeKind = "rust"
    /\ parallelism = 1
    /\ ProbeAbsent
    /\ OrchAbsent
    /\ FindAbsent
    /\ RunAllAbsent
    /\ StaticAbsent
    /\ GenerateAbsent
    /\ ResolveAbsent
    /\ ScopeAbsent
    /\ SupervisionAbsent
    /\ ReportAbsent

ReportNext == ReportGenerate \/ ReportGenerateFailed \/ ReportTick

SpecReport == ReportInit /\ [][ReportNext]_vars

\* C21: after any sequence of generate calls on one output root, the session
\* directory of the most recent successful call holds vulnerabilities.md if
\* and only if that call's response has a vulnerability, and its README.md
\* and results.csv describe that response.
C21_SessionDirMatchesLastCall ==
    generated.result = "Ok" =>
        LET r == generated.response[1]
            d == files[generated.dir]
        IN  /\ d.readme = <<r>>
            /\ d.csv = <<r>>
            /\ (d.vulnerabilities # <<>>) <=> (r.vulnerabilities # <<>>)

\* ---------------------------------------------------------------------------
\* The supervised step of the probes (execute_test): order, timing, attribution
\* ---------------------------------------------------------------------------

\* The main thread of the probe moves to the given position in this step.
Enters(pos) == ppc' = pos /\ ppc # pos

\* The threads running a target's worker closure started in this step.
WorkersStarted == DOMAIN running' \ DOMAIN running

\* C22: within each invocation of execute_test the steps occur in the fixed
\* order baseline capture, start of the worker, receipt of the outcome or
\* expiry of the timeout, the grace, delta capture; the baseline is captured
\* before the worker is started and the delta after the grace, for every
\* outcome.
C22_FixedStepOrder ==
    [][ /\ Enters("spawn") => (ppc = "loop" /\ captured'.baseline = clock)
        /\ Enters("recv") => (ppc = "spawn" /\ WorkersStarted # {}
                                /\ captured.baseline < clock')
        /\ WorkersStarted # {} => (ppc = "spawn" /\ ppc' = "recv")
        /\ Enters("grace") => (ppc = "recv" /\ outcome' \in {"Completed", "Faulted", "TimedOut"})
        /\ Enters("delta") => (ppc = "grace" /\ clock' = clock + GraceTicks)
        /\ Enters("tally") => (ppc = "delta" /\ captured'.delta = clock'
                                 /\ captured'.baseline = captured.baseline)
        /\ captured'.delta # captured.delta => (ppc = "delta" \/ ppc = "tally") ]_vars

C22_Witness ==
    /\ ppc = "tally"
    /\ outcome = "TimedOut"
    /\ Len(outcomes) = 1
    /\ outcomes[1] = "Completed"
    /\ captured.baseline < captured.delta

\* C23: the interval reported as execution_time_ms covers the whole
\* supervised step: the clock is started no later than the baseline capture
\* begins and read no earlier than the delta capture ends, so the grace and
\* both enumerations fall inside the measured interval.
C23_ElapsedCoversSupervisedStep ==
    ppc = "tally" =>
        /\ start <= captured.baseline
        /\ start + result.execution_time_ms >= captured.delta

\* ---------------------------------------------------------------------------
\* How the static scanners read their target (static_analyzer/*.rs)
\* ---------------------------------------------------------------------------

\* The languages StaticAnalyzerFactory has a scanner for in this repository.
ScannerLanguages == {"rust", "go", "java", "javascript"}

\* go.rs and java.rs, parse_target_function: Some(parts[1].trim()) for exactly
\* two parts, else None.
go_parse_target_function(t) ==
    LET parts == Split(t, ":")
    IN  IF Len(parts) = 2
        THEN [kind |-> "Function", name |-> Trim(parts[2])]
        ELSE [kind |-> "File", name |-> <<>>]

\* nodejs.rs, parse_target: an error unless there are exactly two parts.
parse_target(t) ==
    LET parts == Split(t, ":")
    IN  IF Len(parts) # 2
        THEN [kind |-> "Err", name |-> <<>>]
        ELSE [kind |-> "Function", name |-> parts[2]]

\* analyze of each scanner: function-scoped for Some(name), whole file for None,
\* and for JavaScript `?` on parse_target.
ScopeOf(lang, t) ==
    CASE lang = "rust" ->
            IF parse_target_function(t) # <<>>
            THEN [kind |-> "Function", name |-> parse_target_function(t)]
            ELSE [kind |-> "File", name |-> <<>>]
      [] lang \in {"go", "java"} -> go_parse_target_function(t)
      [] lang = "javascript" -> parse_target(t)

\* The targets handed to the scanners: a source or module, alone or followed
\* by `:` or `::` and a function name.
ScopeTargets ==
    {stem \o suffix :
        stem \in {<<"a">>, <<"b">>, <<"a", ".", "x">>, <<"p", ".", "q">>, <<"p", "/", "a", ".", "x">>},
        suffix \in {<<>>, <<":", "f">>, <<":", ":", "f">>, <<":", "g">>, <<":", ":", "g">>}}

\* analyze reads its target.
ScannerScope ==
    /\ scope.kind = "pending"
    /\ scope' = ScopeOf(language, target)
    /\ UNCHANGED <<probeKind, stdin, stdinClosed, stdout, stderr, exitStatus, ppc, request,
                   response, counters, i, j, result, baseline_threads, current_threads,
                   baseline_thread_count, current_thread_count, chan, live, nextTid, running,
                   spawned, parallelism, outcome, outcomes, stdoutOpen, mode, opc,
                   orchResponse, cpc, bridgeRequest, bridgeResult, health, target, language,
                   selected, rpc, language_filter, discovery, unhealthy, ra, ti, sent,
                   analysisLog, runError, escapes, summary, program, source, warnings, spc,
                   count, inputs, prior_count, prior_inputs, now, files, generated, clock,
                   start, captured, creator, paths, source_file>>

ScopeInit ==
    /\ probeKind = "rust"
    /\ parallelism = 1
    /\ ProbeAbsent
    /\ OrchAbsent
    /\ RunAllAbsent
    /\ StaticAbsent
    /\ GenerateAbsent
    /\ ResolveAbsent
    /\ ReportAbsent
    /\ SupervisionAbsent
    /\ target \in ScopeTargets
    /\ language \in ScannerLanguages
    /\ selected = "absent"
    /\ scope = [kind |-> "pending", name |-> <<>>]

ScopeNext == ScannerScope

SpecScope == ScopeInit /\ [][ScopeNext]_vars

\* The text of the target after its `::` or `:` separator.
AfterSeparator(t) ==
    IF ContainsText(t, <<":", ":">>)
    THEN From(t, Find(t, <<":", ":">>) + 2)
    ELSE From(t, Find(t, <<":">>) + 1)

\* C24: in every language's static scanner a target that contains `:` or `::`
\* is analysed function-scoped with the text after the separator as the
\* function name, and a target that contains neither is scanned as a whole
\* file without an error.
C24_TargetScope ==
    scope.kind \notin {"absent", "pending"} =>
        IF ContainsText(target, <<":">>)
        THEN scope = [kind |-> "Function", name |-> AfterSeparator(target)]
        ELSE scope.kind = "File"

\* ---------------------------------------------------------------------------
\* From a target to its source file (orchestrator.rs, resolve_source_file)
\* ---------------------------------------------------------------------------

\* str::replace('.', "/")
ReplaceDots(s) == [k \in DOMAIN s |-> IF s[k] = "." THEN "/" ELSE s[k]]

Tests == <<"t", "e", "s", "t", "s", "/">>

DotPy == <<".", "p", "y">>

\* resolve_source_file, given the files that exist.
resolve_source_file(t, existing) ==
    IF ContainsText(t, <<":">>)
    THEN LET file_or_module == Split(t, ":")[1]
             file_path == ReplaceDots(file_or_module) \o DotPy
             test_path == Tests \o file_path
         IN  IF \/ ContainsText(file_or_module, <<"/">>)
                \/ ContainsText(file_or_module, <<"\\">>)
                \/ EndsWith(file_or_module, DotPy)
             THEN file_or_module
             ELSE IF file_path \in existing THEN file_path
             ELSE IF test_path \in existing THEN test_path
             ELSE file_path
    ELSE t

\* Module-form targets: dotted module, `:`, function.
ModuleStems == {<<"m">>, <<"m", "/", "s">>, <<"p", "/", "m", "/", "s">>}

ModuleOf(stem) == [k \in DOMAIN stem |-> IF stem[k] = "/" THEN "." ELSE stem[k]]

\* The files that may exist for a module: at the project root and under
\* tests/, with the extension of any language.
CandidatePaths(stem) ==
    {prefix \o stem \o extension :
        prefix \in {<<>>, Tests}, extension \in {DotPy, <<".", "r", "s">>}}

\* run_static_analysis: let source_file = resolve_source_file(target)?
ResolveSourceFile ==
    /\ source_file = <<>>
    /\ source_file' = resolve_source_file(target, paths)
    /\ UNCHANGED <<probeKind, stdin, stdinClosed, stdout, stderr, exitStatus, ppc, request,
                   response, counters, i, j, result, baseline_threads, current_threads,
                   baseline_thread_count, current_thread_count, chan, live, nextTid, running,
                   spawned, parallelism, outcome, outcomes, stdoutOpen, mode, opc,
                   orchResponse, cpc, bridgeRequest, bridgeResult, health, target, language,
                   selected, rpc, language_filter, discovery, unhealthy, ra, ti, sent,
                   analysisLog, runError, escapes, summary, program, source, warnings, spc,
                   count, inputs, prior_count, prior_inputs, now, files, generated, clock,
                   start, captured, creator, scope, paths>>

ResolveInit ==
    /\ probeKind = "rust"
    /\ parallelism = 1
    /\ ProbeAbsent
    /\ OrchAbsent
    /\ RunAllAbsent
    /\ StaticAbsent
    /\ GenerateAbsent
    /\ ReportAbsent
    /\ SupervisionAbsent
    /\ ScopeAbsent
    /\ \E stem \in ModuleStems :
        /\ target = ModuleOf(stem) \o <<":", "f">>
        /\ paths \in SUBSET CandidatePaths(stem)
    /\ language \in {Registry[k] : k \in DOMAIN Registry}
    /\ selected = "absent"
    /\ source_file = <<>>

ResolveNext == ResolveSourceFile

SpecResolve == ResolveInit /\ [][ResolveNext]_vars

\* The canonical source extension of a language.
CanonicalExtension(lang) ==
    CASE lang = "python" -> DotPy
      [] lang = "java" -> <<".", "j", "a", "v", "a">>
      [] lang = "javascript" -> <<".", "j", "s">>
      [] lang = "go" -> <<".", "g", "o">>
      [] lang = "rust" -> <<".", "r", "s">>

\* The path the module part of the target stands for under a prefix, in the
\* resolved language.
ModulePath(prefix, t, lang) ==
    prefix \o ReplaceDots(Split(t, ":")[1]) \o CanonicalExtension(lang)

\* C25: for a target module.submodule:fn, resolve_source_file returns the
\* module part with every `.` replaced by `/` and the canonical extension of
\* the resolved language appended, at the project root if that file exists,
\* otherwise under tests/ if that exists.
C25_ModuleTargetResolves ==
    source_file # <<>> =>
        /\ ModulePath(<<>>, target, language) \in paths =>
               source_file = ModulePath(<<>>, target, language)
        /\ (ModulePath(<<>>, target, language) \notin paths
               /\ ModulePath(Tests, target, language) \in paths) =>
               source_file = ModulePath(Tests, target, language)
        /\ source_file \in {ModulePath(<<>>, target, language),
                            ModulePath(Tests, target, language)}

\* ---------------------------------------------------------------------------
\* The Go static scanner (static_analyzer/go.rs)
\* ---------------------------------------------------------------------------

\* Longest body of the Go target function, in statements.
MaxGoStmts == 2

\* extract_func_name: the identifier after the first "func "; <<>> is None.
\* The name ends at `(` or a blank; any other character gives None.
extract_func_name(line) ==
    IF Find(line, <<"f", "u", "n", "c", " ">>) = -1
    THEN <<>>
    ELSE LET after_func == From(line, Find(line, <<"f", "u", "n", "c", " ">>) + 5)
             name == sanitize_ident(after_func)
         IN  IF Len(name) < Len(after_func) /\ after_func[Len(name) + 1] \notin {"(", " "}
             THEN <<>>
             ELSE name

\* split_whitespace().last() of a trimmed text; <<>> is None.
LastWord(s) ==
    LET n == CHOOSE n \in 0..Len(s) :
                 /\ \A k \in (n + 1)..Len(s) : s[k] # " "
                 /\ n = 0 \/ s[n] = " "
    IN  From(s, n)

\* extract_channel_make: the variable a `make(chan` is assigned to; <<>> is None.
extract_channel_make(line) ==
    IF ~ContainsText(line, <<"m", "a", "k", "e", "(", "c", "h", "a", "n">>)
    THEN <<>>
    ELSE LET assign_idx == IF Find(line, <<":", "=">>) # -1 THEN Find(line, <<":", "=">>)
                           ELSE Find(line, <<" ", "=", " ">>)
         IN  IF assign_idx = -1 THEN <<>> ELSE LastWord(Trim(SubSeq(line, 1, assign_idx)))

\* extract_channel_receive: the identifier after the first "<-"; <<>> is None.
extract_channel_receive(line) ==
    IF Find(line, <<"<", "-">>) = -1
    THEN <<>>
    ELSE sanitize_ident(Trim(From(line, Find(line, <<"<", "-">>) + 2)))

\* The goroutine test both analyze_function and detect_goroutine apply.
SpawnsGoroutine(trimmed) ==
    ContainsText(trimmed, <<"g", "o", " ">>) /\ ~StartsWith(trimmed, <<"/", "/">>)

\* go.rs analyze_function: the locals of the scan before the first line.
GoScanStart ==
    [in_target |-> FALSE, brace_depth |-> 0, found_function |-> FALSE, channels |-> {},
     received_channels |-> {}, escapes |-> <<>>, stop |-> 0]

\* go.rs analyze_function: the effect of one line once in_target is set.
GoScanBodyLine(st, trimmed, line_number, function_name) ==
    [st EXCEPT
        !.channels = IF extract_channel_make(trimmed) = <<>> THEN @
                     ELSE @ \cup {extract_channel_make(trimmed)},
        !.received_channels = IF extract_channel_receive(trimmed) = <<>> THEN @
                              ELSE @ \cup {extract_channel_receive(trimmed)},
        !.escapes = IF SpawnsGoroutine(trimmed)
                    THEN Append(@, Escape("ConcurrencyEscape", line_number, function_name,
                                          <<"g", "o", "r", "o", "u", "t", "i", "n", "e">>, "High"))
                    ELSE @,
        !.brace_depth = @ + count_braces(trimmed)]

\* go.rs analyze_function: the `for (idx, line)` loop from line k on; `stop`
\* is the line at which the loop broke, 0 if it ran to the end.
RECURSIVE GoScan(_, _, _, _)
GoScan(lines, function_name, k, st) ==
    IF k > Len(lines)
    THEN st
    ELSE IF ~st.in_target
         THEN IF extract_func_name(Trim(lines[k])) # <<>>
                   /\ extract_func_name(Trim(lines[k])) = function_name
              THEN GoScan(lines, function_name, k + 1,
                          [st EXCEPT !.found_function = TRUE,
                                     !.in_target = TRUE,
                                     !.brace_depth = IF ContainsText(Trim(lines[k]), <<"{">>)
                                                     THEN 1 ELSE 0])
              ELSE GoScan(lines, function_name, k + 1, st)
         ELSE LET after == GoScanBodyLine(st, Trim(lines[k]), k, function_name)
              IN  IF after.brace_depth <= 0
                  THEN [after EXCEPT !.stop = k]
                  ELSE GoScan(lines, function_name, k + 1, after)

\* go.rs analyze_function: at the break, a Medium ConcurrencyEscape for every
\* channel never received on, in the iteration order of the channels set.
UnreceivedEscapes(function_name, st, order) ==
    LET ForChannel(ch) ==
            IF ch \in st.received_channels \/ st.stop = 0
            THEN <<>>
            ELSE <<Escape("ConcurrencyEscape", st.stop, function_name, ch, "Medium")>>
        Rec[k \in 0..Len(order)] == IF k = 0 THEN <<>> ELSE Rec[k - 1] \o ForChannel(order[k])
    IN  Rec[Len(order)]

\* go.rs analyze_function
go_analyze_function(lines, function_name, order) ==
    LET st == GoScan(lines, function_name, 1, GoScanStart)
    IN  st.escapes \o UnreceivedEscapes(function_name, st, order)

\* go.rs analyze_file: detect_goroutine on every line.
go_analyze_file(lines) ==
    LET Rec[k \in 0..Len(lines)] ==
            IF k = 0 THEN <<>>
            ELSE Rec[k - 1] \o (IF SpawnsGoroutine(Trim(lines[k]))
                                THEN <<Escape("ConcurrencyEscape", k, <<"<", "m", "o", "d", "u", "l", "e", ">">>,
                                              <<"g", "o", "r", "o", "u", "t", "i", "n", "e">>, "High")>>
                                ELSE <<>>)
    IN  Rec[Len(lines)]

\* Statements of the Go target's body.
GoStatement ==
    [go_work |-> <<" ", " ", " ", " ", "g", "o", " ", "w", "o", "r", "k", "(", ")">>,
     make_c |-> <<" ", " ", " ", " ", "c", " ", ":", "=", " ", "m", "a", "k", "e", "(", "c", "h", "a", "n", " ", "i", "n", "t", ")">>,
     recv_c |-> <<" ", " ", " ", " ", "<", "-", "c">>]

\* The Go target function F: on one line, or as a block with its statements.
GoTargetLines(pg) ==
    IF pg.sig = "oneline"
    THEN << <<"f", "u", "n", "c", " ", "F", "(", "i", "n", "p", "u", "t", " ", "s", "t", "r", "i", "n", "g", ")", " ", "s", "t", "r", "i", "n", "g", " ", "{", " ", "r", "e", "t", "u", "r", "n", " ", "i", "n", "p", "u", "t", " ", "}">> >>
    ELSE << <<"f", "u", "n", "c", " ", "F", "(", "i", "n", "p", "u", "t", " ", "s", "t", "r", "i", "n", "g", ")", " ", "s", "t", "r", "i", "n", "g", " ", "{">> >>
         \o [k \in 1..Len(pg.stmts) |-> GoStatement[pg.stmts[k]]]
         \o << <<" ", " ", " ", " ", "r", "e", "t", "u", "r", "n", " ", "i", "n", "p", "u", "t">>, <<"}">> >>

\* Another function of the same file, which starts a goroutine.
GoOtherLines == << <<"f", "u", "n", "c", " ", "G", "(", ")", " ", "{">>, <<" ", " ", " ", " ", "g", "o", " ", "w", "o", "r", "k", "(", ")">>, <<"}">> >>

GoBodies == UNION {[1..n -> DOMAIN GoStatement] : n \in 0..MaxGoStmts}

\* Go source files: the target function, alone or with the other function
\* before or after it.
GoPrograms ==
    {pg \in [sig : {"block", "oneline"}, stmts : GoBodies, other : {"none", "before", "after"}] :
        pg.sig = "oneline" => pg.stmts = <<>>}

GoRender(pg) ==
    (IF pg.other = "before" THEN GoOtherLines ELSE <<>>)
        \o GoTargetLines(pg)
        \o (IF pg.other = "after" THEN GoOtherLines ELSE <<>>)

\* Targets naming the function, the file alone, and a function the file lacks.
GoTargets == {<<"a", ".", "g", "o", ":", "F">>, <<"a", ".", "g", "o">>, <<"a", ".", "g", "o", ":", "H">>}

\* GoStaticAnalyzer::analyze: read_to_string fails and `?` returns the error.
GoReadFailed ==
    /\ spc = "pending"
    /\ spc' = "failed"
    /\ UNCHANGED <<probeKind, stdin, stdinClosed, stdout, stderr, exitStatus, ppc, request,
                   response, counters, i, j, result, baseline_threads, current_threads,
                   baseline_thread_count, current_thread_count, chan, live, nextTid, running,
                   spawned, parallelism, outcome, outcomes, stdoutOpen, mode, opc,
                   orchResponse, cpc, bridgeRequest, bridgeResult, health, target, language,
                   selected, rpc, language_filter, discovery, unhealthy, ra, ti, sent,
                   analysisLog, runError, escapes, summary, program, source, warnings, count,
                   inputs, prior_count, prior_inputs, now, files, generated, clock, start,
                   captured, creator, scope, paths, source_file>>

\* GoStaticAnalyzer::analyze
GoStaticAnalyze ==
    /\ spc = "pending"
    /\ LET target_function == go_parse_target_function(target)
           st == GoScan(source, target_function.name, 1, GoScanStart)
       IN  IF target_function.kind = "Function"
           THEN /\ \E order \in Perms(st.channels) :
                     escapes' = go_analyze_function(source, target_function.name, order)
                /\ warnings' = IF st.found_function THEN <<>> ELSE <<"function not found">>
           ELSE /\ escapes' = go_analyze_file(source)
                /\ warnings' = <<>>
    /\ summary' = Summarize(escapes')
    /\ spc' = "done"
    /\ UNCHANGED <<probeKind, stdin, stdinClosed, stdout, stderr, exitStatus, ppc, request,
                   response, counters, i, j, result, baseline_threads, current_threads,
                   baseline_thread_count, current_thread_count, chan, live, nextTid, running,
                   spawned, parallelism, outcome, outcomes, stdoutOpen, mode, opc,
                   orchResponse, cpc, bridgeRequest, bridgeResult, health, target, language,
                   selected, rpc, language_filter, discovery, unhealthy, ra, ti, sent,
                   analysisLog, runError, program, source, count, inputs, prior_count,
                   prior_inputs, now, files, generated, clock, start, captured, creator,
                   scope, paths, source_file>>

GoScanInit ==
    /\ probeKind = "rust"
    /\ parallelism = 1
    /\ ProbeAbsent
    /\ OrchAbsent
    /\ RunAllAbsent
    /\ GenerateAbsent
    /\ ReportAbsent
    /\ SupervisionAbsent
    /\ ScopeAbsent
    /\ ResolveAbsent
    /\ language = "go"
    /\ selected = "absent"
    /\ target \in GoTargets
    /\ program \in GoPrograms
    /\ source = GoRender(program)
    /\ escapes = <<>>
    /\ summary = NewStaticSummary
    /\ warnings = <<>>
    /\ spc = "pending"

GoScanNext == GoStaticAnalyze \/ GoReadFailed

SpecGoScan == GoScanInit /\ [][GoScanNext]_vars

\* The line of the target function's signature in the rendered file.
GoSignatureLine == IF program.other = "before" THEN Len(GoOtherLines) + 1 ELSE 1

\* The line on which the target function's brace depth returns to zero.
GoClosingLine == GoSignatureLine + Len(GoTargetLines(program)) - 1

\* C26: function-scoped static analysis emits only escapes whose line lies
\* inside the target function, after its signature line and not after the
\* line on which its brace depth returns to zero, so spawn sites in other
\* functions of the file are never reported; when no signature matches the
\* target name the scanner returns no escapes and a 'not found' warning.
C26_EscapesInsideTarget ==
    (spc = "done" /\ go_parse_target_function(target).kind = "Function") =>
        IF go_parse_target_function(target).name = <<"F">>
        THEN \A k \in DOMAIN escapes :
                 /\ escapes[k].line > GoSignatureLine
                 /\ escapes[k].line <= GoClosingLine
        ELSE escapes = <<>> /\ warnings = <<"function not found">>

\* The threads alive at the delta capture that the current invocation's own
\* target started.
OwnThreadsAtDelta ==
    {t \in captured.threads : t \in DOMAIN creator /\ creator[t] = Invocation}

\* C27: in the rust-bridge probe an invocation whose target starts a thread
\* that is still alive when the delta is captured is reported with
\* escape_detected = true and non-empty escape_details.
C27_BridgeReportsLiveThread ==
    (ppc = "tally" /\ probeKind = "rust-bridge" /\ OwnThreadsAtDelta # {}) =>
        /\ result.escape_detected
        /\ result.escape_details # EmptyDetails

\* The thread ids listed in the current result's escape_details.threads.
ListedThreads ==
    {t \in 1..nextTid : \E k \in DOMAIN result.escape_details.threads :
        result.escape_details.threads[k].thread_id = ToString(t)}

\* The thread was started by the target of the current invocation.
OwnThread(t) == t \in DOMAIN creator /\ creator[t] = Invocation

\* C28: for every invocation whose outcome is Completed or Faulted, each
\* worker listed in its escape_details was created by that invocation's own
\* target: a target that creates no workers yields escape_detected = false,
\* and a worker left running by an earlier invocation, or started later by
\* such a leftover worker, is never attributed to a later invocation.
C28_EscapesAreOwn ==
    (ppc = "tally" /\ probeKind = "rust" /\ outcome \in {"Completed", "Faulted"}) =>
        /\ \A t \in ListedThreads : OwnThread(t)
        /\ (\A t \in DOMAIN creator : creator[t] # Invocation) => ~result.escape_detected

\* ------------------------------------------------ late worker completion
\* Invocation k has been classified TimedOut: its recv_timeout arm has run.
ClassifiedTimedOut(k) ==
    \/ k \in DOMAIN outcomes /\ outcomes[k] = "TimedOut"
    \/ k = Invocation /\ outcome = "TimedOut" /\ ppc \in {"grace", "delta", "tally"}

\* In this step worker w, and no other thread, ends after its invocation
\* timed out: its target has returned or panicked.
LateFinish(w) ==
    /\ w \in DOMAIN running
    /\ live' = live \ {w}
    /\ live' # live
    /\ ClassifiedTimedOut(running[w])

\* The process ends only where main itself returns: on a request it cannot
\* parse, or after the last (input, repeat) pair.
ExitsOnlyFromMain ==
    exitStatus' # exitStatus => (ppc = "read_stdin" \/ (ppc = "loop" /\ ~HasNext))

\* C29: once an invocation has been classified TimedOut, a later completion
\* or panic of its worker changes neither the recorded results nor the result
\* under construction, does not move, block or end the probe, and puts
\* nothing into the channel a later invocation reads.
C29_LateCompletionIsInert ==
    [][/\ ExitsOnlyFromMain
       /\ \A w \in DOMAIN running : LateFinish(w) =>
             /\ response' = response
             /\ result' = result
             /\ outcome' = outcome
             /\ outcomes' = outcomes
             /\ chan' = chan
             /\ ppc' = ppc
             /\ exitStatus' = exitStatus
             /\ stderr' = stderr]_vars

\* A later invocation is waiting in recv_timeout with an empty channel after
\* the worker of an earlier timed-out invocation has finished.
C29_Witness ==
    /\ ppc = "recv"
    /\ chan = EmptyChan
    /\ \E k \in DOMAIN outcomes :
          /\ outcomes[k] = "TimedOut"
          /\ \A w \in DOMAIN running : running[w] # k

\* ------------------------------------------------ Both mode, one session
\* C30: in Both mode the static scan and the dynamic run of one analyze call
\* refer to the same session and language: when both analyses have run, the
\* language of the static response is the tag of the handle that ran the
\* probe (here the rust handle), and the merged response's session_id is the
\* session_id of the AnalyzeRequest sent to the probe.
C30_BothModeOneSession ==
    (opc = "done" /\ mode = "Both") =>
        /\ orchResponse.language = "rust"
        /\ orchResponse.session_id = bridgeRequest.session_id
====
